---- MODULE Spec2Model ----
(***************************************************************************)
(* State-machine model of the copy-trading bot's detection and execution   *)
(* pipeline and its resilience primitives:                                 *)
(*   - CircuitBreaker        (src/src/utils/circuit-breaker.util.ts)       *)
(*   - TradeMonitorService   (src/unnamed/part_000)                        *)
(*   - retryWithBackoff      (src/src/utils/retry.util.ts)                 *)
(*   - postOrder             (src/src/utils/post-order.util.ts)            *)
(*   - computeProportionalSizing (section 4.2 of the specification)        *)
(*   - TradeExecutorService  (src/src/services/trade-executor.service.ts)  *)
(*   - httpGet               (src/src/utils/fetch-data.util.ts)            *)
(*   - PositionTrackerService (src/src/services/position-tracker.service.ts) *)
(* Each component has its own specification (SpecCB, SpecMon, ...); the    *)
(* other components' variables are held fixed in it.                       *)
(***************************************************************************)
EXTENDS Integers, Sequences, FiniteSets, TLC

VARIABLES
    \* ---- CircuitBreaker fields (circuit-breaker.util.ts:18-22)
    state, failureCount, successCount, nextAttempt, options,
    \* ---- CircuitBreaker environment: Date.now(), and one entry per caller
    \* of execute(): where the call is / how it ended
    cbNow, pc,
    \* ---- CircuitBreaker history (read by the properties only)
    consecutiveFailures, openedAt, lastEdge,
    \* ---- TradeMonitorService fields (part_000:30-32) and start()'s promise
    timer, processedHashes, lastFetchTime, startState,
    \* ---- TradeMonitorService environment: Date.now() in seconds, the due
    \* time of the interval timer, the ticks in flight and their per-trader
    \* tasks
    clock, nextFire, tickState, task,
    \* ---- TradeMonitorService history (read by the properties only)
    residentForwards, everForwarded, largestForwarded, forwardedFor, lastRun,
    \* ---- retryWithBackoff (retry.util.ts:26-28, 30): its options and locals,
    \* where the call is and how it ended
    opts, attempt, delay, lastError, retryPc, retryResult,
    \* ---- retryWithBackoff history (read by the properties only): invocations
    \* of the operation, those that failed, the delays waited, the warnings
    invocations, failures, slept, warnings,
    \* ---- postOrder (post-order.util.ts:20-31, 49, 85-86, 101-119): its
    \* input and locals, where the call is and the error it raised
    input, bestPrice, remaining, retryCount, orderArgs, orderValue, poPc, poError,
    \* ---- postOrder history (read by the properties only): calls of
    \* createMarketOrder, orders submitted, value accepted, loop iterations
    \* and what the client answered in the last step
    ordersCreated, ordersSubmitted, acceptedValue, iterations, lastAnswer,
    \* ---- computeProportionalSizing: its input, its result, where the call is
    sizingInput, sizingResult, sizingPc,
    \* ---- signal construction (part_000:100-108): the activity, the signal
    \* built from it, where the construction is
    activity, signal, signalPc,
    \* ---- copyTrade (trade-executor.service.ts:32-48): the signal, whether a
    \* position tracker is configured, the locals, where the call is
    copySignal, tracker, yourUsdBalance, traderBalance, executionSuccess,
    executedSize, execPc,
    \* ---- copyTrade history (read by the properties only): the error the
    \* catch block caught, the recordTrade calls made, the postOrder calls
    \* made and whether postOrder returned normally
    execError, ledger, postOrderCalls, postOrderReturned, acceptedUsd,
    \* ---- httpGet (fetch-data.util.ts:20-48) and the retryWithBackoff call
    \* it makes: the retryEnabled argument, the wrapper's locals, where the
    \* call is, how it ended, and (history) the outcome of every request made
    retryEnabled, httpAttempt, httpDelay, httpLastError, httpPc, httpResult,
    requests,
    \* ---- PositionTrackerService.recordTrade
    \* (position-tracker.service.ts:22-130): deps.enabled, the Position
    \* document of the (follower, market, outcome) in the collection, the
    \* number of Trade documents, and per call its arguments, where it is,
    \* its local `position` and the document as findOne returned it;
    \* history: the storage calls that failed for a reason of the store's own
    \* and the stored position at the start
    trackerEnabled, storedPosition, storedTrades, recordArgs, recordPc,
    position, loaded, storageErrors, positionBefore

cbVars  == <<state, failureCount, successCount, nextAttempt, options, cbNow, pc,
             consecutiveFailures, openedAt, lastEdge>>
monVars == <<timer, processedHashes, lastFetchTime, startState, clock, nextFire,
             tickState, task, residentForwards, everForwarded, largestForwarded,
             forwardedFor, lastRun>>
retryVars == <<opts, attempt, delay, lastError, retryPc, retryResult,
               invocations, failures, slept, warnings>>
orderVars == <<input, bestPrice, remaining, retryCount, orderArgs, orderValue,
               poPc, poError, ordersCreated, ordersSubmitted, acceptedValue,
               iterations, lastAnswer>>
sizingVars == <<sizingInput, sizingResult, sizingPc>>
signalVars == <<activity, signal, signalPc>>
execVars == <<copySignal, tracker, yourUsdBalance, traderBalance, executionSuccess,
              executedSize, execPc, execError, ledger, postOrderCalls,
              postOrderReturned, acceptedUsd>>
httpVars == <<retryEnabled, httpAttempt, httpDelay, httpLastError, httpPc,
              httpResult, requests>>
trackerVars == <<trackerEnabled, storedPosition, storedTrades, recordArgs, recordPc,
                 position, loaded, storageErrors, positionBefore>>
vars    == <<cbVars, monVars, retryVars, orderVars, sizingVars, signalVars, execVars, httpVars, trackerVars>>

\* What a step of one component leaves alone.
outsideCB     == <<monVars, retryVars, orderVars, sizingVars, signalVars, execVars, httpVars, trackerVars>>
outsideMon    == <<cbVars, retryVars, orderVars, sizingVars, signalVars, execVars, httpVars, trackerVars>>
outsideRetry  == <<cbVars, monVars, orderVars, sizingVars, signalVars, execVars, httpVars, trackerVars>>
outsideOrder  == <<cbVars, monVars, retryVars, sizingVars, signalVars, execVars, httpVars, trackerVars>>
outsideSizing == <<cbVars, monVars, retryVars, orderVars, signalVars, execVars, httpVars, trackerVars>>
outsideSignal == <<cbVars, monVars, retryVars, orderVars, sizingVars, execVars, httpVars, trackerVars>>
outsideExec == <<cbVars, monVars, retryVars, orderVars, sizingVars, signalVars, httpVars, trackerVars>>
outsideHttp == <<cbVars, monVars, retryVars, orderVars, sizingVars, signalVars, execVars, trackerVars>>
outsideTracker == <<cbVars, monVars, retryVars, orderVars, sizingVars, signalVars, execVars, httpVars>>

(***************************************************************************)
(* Bounds of the model                                                     *)
(***************************************************************************)
MaxThreshold    == 3   \* failureThreshold, successThreshold range over 1..MaxThreshold
MaxCallers      == 2   \* execute() calls that can be in flight together
MaxFailureCount == 5   \* cap on failureCount (it grows without bound in the code)
MaxCbTime       == 4   \* Date.now() of the breaker ranges over 0..MaxCbTime
Timeout         == 2   \* options.timeout, in units of the breaker's clock

(***************************************************************************)
(*                          C i r c u i t B r e a k e r                    *)
(***************************************************************************)
CLOSED    == "CLOSED"
OPEN      == "OPEN"
HALF_OPEN == "HALF_OPEN"
CircuitBreakerState == {CLOSED, OPEN, HALF_OPEN}

Callers == 1..MaxCallers

\* History: the last change of `state`, as <<from, to>>.
NoEdge == <<"none", "none">>
Edge(from, to) == IF from = to THEN lastEdge ELSE <<from, to>>

\* Where a caller's execute() is: not calling, awaiting operation(), or ended
\* by returning the result, by re-raising the operation's error, or by the
\* breaker's own "Circuit breaker is OPEN" error.
CallStates == {"idle", "running", "returned", "threw", "rejected"}

CBInit ==
    /\ state = CLOSED
    /\ failureCount = 0
    /\ successCount = 0
    /\ cbNow = 0
    /\ nextAttempt = 0
    /\ options \in [failureThreshold : 1..MaxThreshold,
                    successThreshold : 1..MaxThreshold,
                    timeout          : {Timeout}]
    /\ pc = [c \in Callers |-> "idle"]
    /\ consecutiveFailures = 0
    /\ openedAt = -1
    /\ lastEdge = NoEdge

\* Variant of Admits: the deadline test is dropped, every call is admitted.
AdmitsBeforeDeadline(st, now, deadline) == TRUE

\* execute(), lines 29-30: the admission test; a call is rejected while the
\* circuit is OPEN and the deadline has not been reached.
Admits(st, now, deadline) == ~(st = OPEN /\ now < deadline)

\* execute(), lines 29-46: the synchronous part up to `await operation()`.
ExecuteCall(c) ==
    /\ pc[c] = "idle"
    /\ IF ~Admits(state, cbNow, nextAttempt)
       THEN /\ pc' = [pc EXCEPT ![c] = "rejected"]
            /\ UNCHANGED <<state, successCount>>
       ELSE /\ pc' = [pc EXCEPT ![c] = "running"]
            /\ IF state = OPEN
               THEN /\ state' = HALF_OPEN
                    /\ successCount' = 0
               ELSE UNCHANGED <<state, successCount>>
    /\ lastEdge' = Edge(state, state')
    /\ UNCHANGED <<failureCount, nextAttempt, options, cbNow,
                   consecutiveFailures, openedAt>>
    /\ UNCHANGED outsideCB

\* Variant of onSuccess: failureCount is not reset.
onSuccessKeepsFailureCount(st, fc, sc, opt) ==
    IF st = HALF_OPEN
    THEN IF sc + 1 >= opt.successThreshold
         THEN [state |-> CLOSED, failureCount |-> fc, successCount |-> 0]
         ELSE [state |-> st, failureCount |-> fc, successCount |-> sc + 1]
    ELSE [state |-> st, failureCount |-> fc, successCount |-> sc]

\* Variant of onSuccess: the threshold test is > instead of >=.
onSuccessOffByOne(st, fc, sc, opt) ==
    IF st = HALF_OPEN
    THEN IF sc + 1 > opt.successThreshold
         THEN [state |-> CLOSED, failureCount |-> 0, successCount |-> 0]
         ELSE [state |-> st, failureCount |-> 0, successCount |-> sc + 1]
    ELSE [state |-> st, failureCount |-> 0, successCount |-> sc]

\* Variant of onSuccess: the state test is dropped, successes are counted
\* and close the circuit in every state.
onSuccessInAnyState(st, fc, sc, opt) ==
    IF sc + 1 >= opt.successThreshold
    THEN [state |-> CLOSED, failureCount |-> 0, successCount |-> 0]
    ELSE [state |-> st, failureCount |-> 0, successCount |-> sc + 1]

\* onSuccess(), lines 58-71, as the new <<state, failureCount, successCount>>.
onSuccess(st, fc, sc, opt) ==
    IF st = HALF_OPEN
    THEN IF sc + 1 >= opt.successThreshold
         THEN [state |-> CLOSED, failureCount |-> 0, successCount |-> 0]
         ELSE [state |-> st, failureCount |-> 0, successCount |-> sc + 1]
    ELSE [state |-> st, failureCount |-> 0, successCount |-> sc]

\* Variant of onFailure: the HALF_OPEN branch leaves successCount as it is.
onFailureKeepsSuccessCount(st, fc, sc, na, now, opt) ==
    IF st = HALF_OPEN
    THEN [state |-> OPEN, failureCount |-> fc + 1, successCount |-> sc,
          nextAttempt |-> now + opt.timeout]
    ELSE IF fc + 1 >= opt.failureThreshold
         THEN [state |-> OPEN, failureCount |-> fc + 1, successCount |-> sc,
               nextAttempt |-> now + opt.timeout]
         ELSE [state |-> st, failureCount |-> fc + 1, successCount |-> sc,
               nextAttempt |-> na]

\* Variant of onFailure: the HALF_OPEN branch is dropped, only the threshold
\* opens the circuit.
onFailureThresholdOnly(st, fc, sc, na, now, opt) ==
    IF fc + 1 >= opt.failureThreshold
    THEN [state |-> OPEN, failureCount |-> fc + 1, successCount |-> sc,
          nextAttempt |-> now + opt.timeout]
    ELSE [state |-> st, failureCount |-> fc + 1, successCount |-> sc,
          nextAttempt |-> na]

\* onFailure(), lines 73-96, as the new fields.
onFailure(st, fc, sc, na, now, opt) ==
    IF st = HALF_OPEN
    THEN [state |-> OPEN, failureCount |-> fc + 1, successCount |-> 0,
          nextAttempt |-> now + opt.timeout]
    ELSE IF fc + 1 >= opt.failureThreshold
         THEN [state |-> OPEN, failureCount |-> fc + 1, successCount |-> sc,
               nextAttempt |-> now + opt.timeout]
         ELSE [state |-> st, failureCount |-> fc + 1, successCount |-> sc,
               nextAttempt |-> na]

\* execute(), lines 49-51: operation() resolved.
OperationResolves(c) ==
    /\ pc[c] = "running"
    /\ LET r == onSuccess(state, failureCount, successCount, options)
       IN /\ state' = r.state
          /\ failureCount' = r.failureCount
          /\ successCount' = r.successCount
          /\ lastEdge' = Edge(state, r.state)
    /\ pc' = [pc EXCEPT ![c] = "returned"]
    /\ consecutiveFailures' = 0
    /\ UNCHANGED <<nextAttempt, options, cbNow, openedAt>>
    /\ UNCHANGED outsideCB

\* execute(), lines 52-55: operation() rejected; the error is re-raised.
OperationRejects(c) ==
    /\ pc[c] = "running"
    /\ failureCount < MaxFailureCount
    /\ LET r == onFailure(state, failureCount, successCount, nextAttempt, cbNow, options)
       IN /\ state' = r.state
          /\ failureCount' = r.failureCount
          /\ successCount' = r.successCount
          /\ nextAttempt' = r.nextAttempt
          /\ openedAt' = IF state # OPEN /\ r.state = OPEN THEN cbNow ELSE openedAt
          /\ lastEdge' = Edge(state, r.state)
    /\ pc' = [pc EXCEPT ![c] = "threw"]
    /\ consecutiveFailures' = consecutiveFailures + 1
    /\ UNCHANGED <<options, cbNow>>
    /\ UNCHANGED outsideCB

\* The caller has taken the outcome of its call and may call again.
CallerContinues(c) ==
    /\ pc[c] \in {"returned", "threw", "rejected"}
    /\ pc' = [pc EXCEPT ![c] = "idle"]
    /\ UNCHANGED <<state, failureCount, successCount, nextAttempt, options, cbNow,
                   consecutiveFailures, openedAt, lastEdge>>
    /\ UNCHANGED outsideCB

\* reset(), lines 110-118.
Reset ==
    /\ state' = CLOSED
    /\ failureCount' = 0
    /\ successCount' = 0
    /\ nextAttempt' = cbNow
    /\ consecutiveFailures' = 0
    /\ lastEdge' = Edge(state, CLOSED)
    /\ UNCHANGED <<options, cbNow, pc, openedAt>>
    /\ UNCHANGED outsideCB

\* Date.now() advances.
CbClockAdvances ==
    /\ cbNow < MaxCbTime
    /\ cbNow' = cbNow + 1
    /\ UNCHANGED <<state, failureCount, successCount, nextAttempt, options, pc,
                   consecutiveFailures, openedAt, lastEdge>>
    /\ UNCHANGED outsideCB

CBNext ==
    \/ \E c \in Callers : ExecuteCall(c)
    \/ \E c \in Callers : OperationResolves(c)
    \/ \E c \in Callers : OperationRejects(c)
    \/ \E c \in Callers : CallerContinues(c)
    \/ Reset
    \/ CbClockAdvances

(***************************************************************************)
(*                     T r a d e M o n i t o r S e r v i c e               *)
(***************************************************************************)
MaxClock        == 3   \* Date.now()/1000 ranges over FirstClock..MaxClock
MaxActivityTime == 2   \* the latest activity time (the earliest is 1)
MaxFeedLen      == 2   \* longest activity list one fetch returns
MaxTickSlots    == 2   \* ticks that can be in flight together
AggregationWindowSeconds == 1   \* env.aggregationWindowSeconds
FetchIntervalSeconds     == 1   \* env.fetchIntervalSeconds

\* part_000:33-34, scaled down (10000 and 5000 in the source) so that the
\* cache fills and is cleaned within the bounds.
MAX_HASH_CACHE_SIZE == 2
CLEANUP_BATCH_SIZE  == 1

MsPerSecond == 1000

\* Date.now()/1000 when the service is constructed: past the epoch by more
\* than the aggregation window.
FirstClock == AggregationWindowSeconds + 1

Traders == {"trader1", "trader2"}     \* deps.userAddresses
Hashes  == {"0xa", "0xb", "0xc"}
Slots   == 1..MaxTickSlots

\* ActivityResponse.timestamp: a number (epoch seconds), or a date string,
\* kept as the epoch milliseconds that `new Date(s).getTime()` gives for it.
Seconds(t)    == [isNumber |-> TRUE,  value |-> t]
DateString(m) == [isNumber |-> FALSE, value |-> m]

Trade(h, ts) == [type |-> "TRADE", timestamp |-> ts, transactionHash |-> h]

\* The activities a feed can return: an early trade (hash 0xb) whose timestamp
\* is a date string that falls inside the first second, two trades (hashes
\* 0xa and 0xc) at the latest activity time, given in seconds, and a record
\* that is not a trade.
Activities ==
    { Trade("0xb", DateString(MsPerSecond + 500)) }
    \cup { Trade(h, Seconds(MaxActivityTime)) : h \in {"0xa", "0xc"} }
    \cup { [type |-> "DEPOSIT", timestamp |-> Seconds(MaxActivityTime),
            transactionHash |-> "0xc"] }

FeedLists ==
    UNION { [1..n -> Activities] : n \in 0..MaxFeedLen }

\* The argument of an onDetectedTrade call (part_000:100-108): the fields the
\* monitor's bookkeeping decides, and the hash of the activity it was built
\* from, which identifies the call.
NoSignal == [timestamp |-> 0, transactionHash |-> "none"]

\* One fetchTraderActivities() call: where it is, the activities not yet
\* examined, the cutoff it computed, the error its catch block logged (if
\* any), and how its promise settled.
IdleTask ==
    [pc |-> "idle", pending |-> <<>>, cutoffTime |-> 0,
     failed |-> "none", result |-> "pending"]

\* History: what the last step did, when it was a run of the loop of
\* part_000:91-114: the task that ran, the signal it handed to the consumer
\* (if any) and the last trade it examined and skipped (if any) with the
\* test that skipped it. NoRun after any other step.
NoSkip == [transactionHash |-> "none", reason |-> "none"]
NoRun  == [slot |-> 0, trader |-> "none", signal |-> NoSignal, skipped |-> NoSkip]

Max(a, b) == IF a >= b THEN a ELSE b
Min(S)    == CHOOSE x \in S : \A y \in S : x <= y

SeqToSet(q) == { q[i] : i \in 1..Len(q) }

\* part_000:93, the activity's time in epoch seconds.
activityTime(a) ==
    IF a.timestamp.isNumber
    THEN a.timestamp.value
    ELSE a.timestamp.value \div MsPerSecond

\* Variant of SkipReason: the dedup-cache test is dropped.
SkipReasonNoCacheTest(a, trader, cutoff, hashes, lastFetch) ==
    IF a.type # "TRADE" THEN "type"
    ELSE IF activityTime(a) < cutoff THEN "window"
    ELSE IF activityTime(a) <= lastFetch[trader] THEN "watermark"
    ELSE "none"

\* Variant of SkipReason: the aggregation-window test is dropped.
SkipReasonNoWindowTest(a, trader, cutoff, hashes, lastFetch) ==
    IF a.type # "TRADE" THEN "type"
    ELSE IF a.transactionHash \in SeqToSet(hashes) THEN "cache"
    ELSE IF activityTime(a) <= lastFetch[trader] THEN "watermark"
    ELSE "none"

\* part_000:92-98, the four tests that skip an activity: which `continue`
\* is taken for activity a, or "none" when it passes all four.
SkipReason(a, trader, cutoff, hashes, lastFetch) ==
    IF a.type # "TRADE" THEN "type"
    ELSE IF activityTime(a) < cutoff THEN "window"
    ELSE IF a.transactionHash \in SeqToSet(hashes) THEN "cache"
    ELSE IF activityTime(a) <= lastFetch[trader] THEN "watermark"
    ELSE "none"

Skips(a, trader, cutoff, hashes, lastFetch) ==
    SkipReason(a, trader, cutoff, hashes, lastFetch) # "none"

\* History: the last trade among acts[1..upto], all skipped, with the test
\* that skipped it.
LastSkipped(acts, upto, trader, cutoff, hashes, lastFetch) ==
    LET trades == { k \in 1..upto : acts[k].type = "TRADE" }
    IN IF trades = {} THEN NoSkip
       ELSE LET j == CHOOSE k \in trades : \A m \in trades : m <= k
            IN [transactionHash |-> acts[j].transactionHash,
                reason |-> SkipReason(acts[j], trader, cutoff, hashes, lastFetch)]

\* part_000:100-108.
BuildSignal(a, trader) ==
    [timestamp |-> activityTime(a) * MsPerSecond,
     transactionHash |-> a.transactionHash]

\* part_000:110, Set.add keeps insertion order and ignores a present element.
AddHash(hashes, h) ==
    IF h \in SeqToSet(hashes) THEN hashes ELSE Append(hashes, h)

\* Variant of AdvanceWatermark: the watermark is left where it was.
AdvanceWatermarkLeftAlone(lastFetch, trader, t) == lastFetch

\* Variant of AdvanceWatermark: the watermark is kept in one place for all
\* traders.
AdvanceWatermarkOfAllTraders(lastFetch, trader, t) ==
    [x \in Traders |-> Max(lastFetch[x], t)]

\* part_000:111.
AdvanceWatermark(lastFetch, trader, t) ==
    [lastFetch EXCEPT ![trader] = Max(lastFetch[trader], t)]

\* part_000:70-81, the cache after cleanup.
cleanupHashCache(hashes) ==
    IF Len(hashes) > MAX_HASH_CACHE_SIZE
    THEN SubSeq(hashes, CLEANUP_BATCH_SIZE + 1, Len(hashes))
    ELSE hashes

\* Variant of CatchTaskError: the catch block raises the error again, so the
\* task's promise rejects.
CatchTaskErrorRethrows(tk, kind) ==
    [tk EXCEPT !.pc = "settled", !.pending = <<>>, !.cutoffTime = 0,
               !.failed = kind, !.result = "rejected"]

\* part_000:115-117, the catch block: the error is logged and the task's
\* promise fulfils.
CatchTaskError(tk, kind) ==
    [tk EXCEPT !.pc = "settled", !.pending = <<>>, !.cutoffTime = 0,
               !.failed = kind, !.result = "fulfilled"]

\* part_000:57-59, every trader's task is started; each runs to its
\* `await httpGet(url)`.
StartTasks == [t \in Traders |-> [IdleTask EXCEPT !.pc = "fetching"]]

LowestFreeSlot == Min({ s \in Slots : tickState[s] = "free" })

MonInit ==
    /\ timer = "unset"
    /\ processedHashes = <<>>
    /\ lastFetchTime = [t \in Traders |-> 0]
    /\ startState = "notStarted"
    /\ clock = FirstClock
    /\ nextFire = 0
    /\ tickState = [s \in Slots |-> "free"]
    /\ task = [s \in Slots |-> [t \in Traders |-> IdleTask]]
    /\ residentForwards = [h \in Hashes |-> 0]
    /\ everForwarded = {}
    /\ largestForwarded = [t \in Traders |-> 0]
    /\ forwardedFor = [t \in Traders |-> {}]
    /\ lastRun = NoRun

\* start(), part_000:40-47: the timer is set and the first tick begins.
Start ==
    /\ startState = "notStarted"
    /\ timer' = "set"
    /\ nextFire' = clock + FetchIntervalSeconds
    /\ tickState' = [tickState EXCEPT ![1] = "running"]
    /\ task' = [task EXCEPT ![1] = StartTasks]
    /\ startState' = "awaitingTick"
    /\ UNCHANGED <<processedHashes, lastFetchTime, clock,
                   residentForwards, everForwarded, largestForwarded,
                   forwardedFor>>
    /\ lastRun' = NoRun
    /\ UNCHANGED outsideMon

\* The interval timer fires (part_000:45): a new tick begins, whether or not
\* an earlier tick is still in flight.
TimerFires ==
    /\ timer = "set"
    /\ clock >= nextFire
    /\ \E s \in Slots : tickState[s] = "free"
    /\ LET s == LowestFreeSlot
       IN /\ tickState' = [tickState EXCEPT ![s] = "running"]
          /\ task' = [task EXCEPT ![s] = StartTasks]
    /\ nextFire' = nextFire + FetchIntervalSeconds
    /\ UNCHANGED <<timer, processedHashes, lastFetchTime, startState, clock,
                   residentForwards, everForwarded, largestForwarded,
                   forwardedFor>>
    /\ lastRun' = NoRun
    /\ UNCHANGED outsideMon

\* Variant of Stop: the ticks in flight are abandoned with the timer.
StopAbandonsTicks ==
    /\ timer = "set"
    /\ timer' = "cleared"
    /\ tickState' = [s \in Slots |-> "free"]
    /\ task' = [s \in Slots |-> [t \in Traders |-> IdleTask]]
    /\ UNCHANGED <<processedHashes, lastFetchTime, startState, clock, nextFire,
                   residentForwards, everForwarded, largestForwarded,
                   forwardedFor>>
    /\ lastRun' = NoRun
    /\ UNCHANGED outsideMon

\* stop(), part_000:49-51.
Stop ==
    /\ timer = "set"
    /\ timer' = "cleared"
    /\ UNCHANGED <<processedHashes, lastFetchTime, startState, clock, nextFire,
                   tickState, task, residentForwards, everForwarded, largestForwarded,
                   forwardedFor>>
    /\ lastRun' = NoRun
    /\ UNCHANGED outsideMon

\* The loop of part_000:91-114 from its current position to its next await
\* or to its end, for task (s, t) with `acts` still to examine and the given
\* cutoff: activities are skipped up to the first one that passes the four
\* tests; that one is recorded (hash, watermark) and handed to the consumer,
\* which the task then awaits; if none passes, the task returns. Skipping
\* changes no state, so the first activity that passes is decided by the
\* cache and the watermark as they are when the loop resumes.
RunLoop(s, t, acts, cutoff) ==
    LET kept == { i \in 1..Len(acts) :
                    ~Skips(acts[i], t, cutoff, processedHashes, lastFetchTime) }
    IN IF kept = {}
       THEN /\ task' = [task EXCEPT ![s][t] =
                          [@ EXCEPT !.pc = "settled", !.pending = <<>>,
                                    !.cutoffTime = 0, !.result = "fulfilled"]]
            /\ lastRun' = [slot |-> s, trader |-> t, signal |-> NoSignal,
                           skipped |-> LastSkipped(acts, Len(acts), t, cutoff,
                                                   processedHashes, lastFetchTime)]
            /\ UNCHANGED <<processedHashes, lastFetchTime, residentForwards,
                           everForwarded, largestForwarded,
                   forwardedFor>>
       ELSE LET i == Min(kept)
                a == acts[i]
            IN /\ processedHashes' = AddHash(processedHashes, a.transactionHash)
               /\ lastFetchTime' = AdvanceWatermark(lastFetchTime, t, activityTime(a))
               /\ task' = [task EXCEPT ![s][t] =
                             [@ EXCEPT !.pc = "awaitingConsumer",
                                       !.pending = SubSeq(acts, i + 1, Len(acts)),
                                       !.cutoffTime = cutoff]]
               /\ residentForwards' =
                      [residentForwards EXCEPT ![a.transactionHash] = @ + 1]
               /\ everForwarded' = everForwarded \cup {a.transactionHash}
               /\ largestForwarded' =
                      [largestForwarded EXCEPT ![t] =
                          IF activityTime(a) > @ THEN activityTime(a) ELSE @]
               /\ forwardedFor' =
                      [forwardedFor EXCEPT ![t] = @ \cup {a.transactionHash}]
               /\ lastRun' = [slot |-> s, trader |-> t, signal |-> BuildSignal(a, t),
                              skipped |-> LastSkipped(acts, i - 1, t, cutoff,
                                                      processedHashes, lastFetchTime)]

\* part_000:86-114: httpGet resolved with a list; now and cutoffTime are
\* computed and the loop runs to its first await or to its end.
FetchResolves(s, t) ==
    /\ task[s][t].pc = "fetching"
    /\ \E acts \in FeedLists :
         RunLoop(s, t, acts, clock - AggregationWindowSeconds)
    /\ UNCHANGED <<timer, startState, clock, nextFire, tickState>>
    /\ UNCHANGED outsideMon

\* part_000:86 and 115-117: httpGet rejected.
FetchRejects(s, t) ==
    /\ task[s][t].pc = "fetching"
    /\ task' = [task EXCEPT ![s][t] = CatchTaskError(@, "fetch")]
    /\ UNCHANGED <<timer, processedHashes, lastFetchTime, startState, clock,
                   nextFire, tickState, residentForwards, everForwarded, largestForwarded,
                   forwardedFor>>
    /\ lastRun' = NoRun
    /\ UNCHANGED outsideMon

\* Variant of ConsumerResolves: the consumer is shared under a lock, a
\* task's callback completes only when no other task of the tick awaits one
\* for an earlier trader.
ConsumerResolvesInTurn(s, t) ==
    /\ task[s][t].pc = "awaitingConsumer"
    /\ \A u \in Traders : task[s][u].pc = "awaitingConsumer" => u = t \/ t = "trader1"
    /\ RunLoop(s, t, task[s][t].pending, task[s][t].cutoffTime)
    /\ UNCHANGED <<timer, startState, clock, nextFire, tickState>>
    /\ UNCHANGED outsideMon

\* part_000:113 and 91-114: onDetectedTrade resolved; the loop goes on to
\* its next await or to its end.
ConsumerResolves(s, t) ==
    /\ task[s][t].pc = "awaitingConsumer"
    /\ RunLoop(s, t, task[s][t].pending, task[s][t].cutoffTime)
    /\ UNCHANGED <<timer, startState, clock, nextFire, tickState>>
    /\ UNCHANGED outsideMon

\* Variant of ConsumerRejects: the catch block takes the newest hash out of
\* the cache again, so that the trade is retried.
ConsumerRejectsForgetsHash(s, t) ==
    /\ task[s][t].pc = "awaitingConsumer"
    /\ task' = [task EXCEPT ![s][t] = CatchTaskError(@, "consumer")]
    /\ processedHashes' = SubSeq(processedHashes, 1, Len(processedHashes) - 1)
    /\ UNCHANGED <<timer, lastFetchTime, startState, clock,
                   nextFire, tickState, residentForwards, everForwarded, largestForwarded,
                   forwardedFor>>
    /\ lastRun' = NoRun
    /\ UNCHANGED outsideMon

\* part_000:113 and 115-117: onDetectedTrade rejected.
ConsumerRejects(s, t) ==
    /\ task[s][t].pc = "awaitingConsumer"
    /\ task' = [task EXCEPT ![s][t] = CatchTaskError(@, "consumer")]
    /\ UNCHANGED <<timer, processedHashes, lastFetchTime, startState, clock,
                   nextFire, tickState, residentForwards, everForwarded, largestForwarded,
                   forwardedFor>>
    /\ lastRun' = NoRun
    /\ UNCHANGED outsideMon

\* Variant of allSettled: the join of Promise.all over tasks that raise, it
\* never fulfils when a task has failed.
allSettledUnlessFailed(tasks) ==
    \A t \in Traders : tasks[t].pc = "settled" /\ tasks[t].failed = "none"

\* Variant of allSettled: the join fulfils as soon as one task has settled.
allSettledWhenAnySettled(tasks) == \E t \in Traders : tasks[t].pc = "settled"

\* part_000:57-59, Promise.allSettled: it fulfils once every task has settled,
\* however each one settled.
allSettled(tasks) == \A t \in Traders : tasks[t].pc = "settled"

\* part_000:53-64: how tick() ends. allSettled never rejects and cleanup
\* does not raise, so the try block always completes.
tickOutcome(tasks) == "completed"

\* tick(), part_000:57-60 after the join: cleanup runs and the tick ends; the
\* first tick's end is what start() awaits (part_000:46).
TickJoins(s) ==
    /\ tickState[s] = "running"
    /\ allSettled(task[s])
    /\ processedHashes' = cleanupHashCache(processedHashes)
    /\ residentForwards' =
          [h \in Hashes |->
             IF h \in SeqToSet(cleanupHashCache(processedHashes))
             THEN residentForwards[h] ELSE 0]
    /\ tickState' = [tickState EXCEPT ![s] = "free"]
    /\ task' = [task EXCEPT ![s] = [t \in Traders |-> IdleTask]]
    /\ startState' = IF s = 1 /\ startState = "awaitingTick"
                     THEN (IF tickOutcome(task[s]) = "completed"
                           THEN "returned" ELSE "raised")
                     ELSE startState
    /\ UNCHANGED <<timer, lastFetchTime, clock, nextFire, everForwarded, largestForwarded,
                   forwardedFor>>
    /\ lastRun' = NoRun
    /\ UNCHANGED outsideMon

\* Date.now() advances by a second; a due timer fires first.
ClockAdvances ==
    /\ clock < MaxClock
    /\ ~(timer = "set" /\ nextFire <= clock)
    /\ clock' = clock + 1
    /\ UNCHANGED <<timer, processedHashes, lastFetchTime, startState, nextFire,
                   tickState, task, residentForwards, everForwarded, largestForwarded,
                   forwardedFor>>
    /\ lastRun' = NoRun
    /\ UNCHANGED outsideMon

MonNext ==
    \/ Start
    \/ TimerFires
    \/ Stop
    \/ \E s \in Slots, t \in Traders : FetchResolves(s, t)
    \/ \E s \in Slots, t \in Traders : FetchRejects(s, t)
    \/ \E s \in Slots, t \in Traders : ConsumerResolves(s, t)
    \/ \E s \in Slots, t \in Traders : ConsumerRejects(s, t)
    \/ \E s \in Slots : TickJoins(s)
    \/ ClockAdvances

(***************************************************************************)
(* The dedup cache over whole ticks: what the tasks of a tick and its      *)
(* cleanup do to processedHashes, whichever traders and activities the     *)
(* hashes come from. A tick's tasks record any number of new hashes        *)
(* (one task per trader, one hash per forwarded activity) before the join. *)
(***************************************************************************)
MaxCacheHashes == 5   \* distinct hashes the feeds can deliver, numbered

CacheHashes == 1..MaxCacheHashes

\* tick() is entered (part_000:53-59).
TickBegins ==
    /\ tickState[1] = "free"
    /\ tickState' = [tickState EXCEPT ![1] = "running"]
    /\ UNCHANGED <<timer, processedHashes, lastFetchTime, startState, clock,
                   nextFire, task, residentForwards, everForwarded, largestForwarded,
                   forwardedFor, lastRun>>
    /\ UNCHANGED outsideMon

\* part_000:95 and 110: a task of the tick forwards an activity whose hash h
\* is not in the cache, and records h.
TaskRecordsHash(h) ==
    /\ tickState[1] = "running"
    /\ h \notin SeqToSet(processedHashes)
    /\ processedHashes' = AddHash(processedHashes, h)
    /\ UNCHANGED <<timer, lastFetchTime, startState, clock, nextFire, tickState,
                   task, residentForwards, everForwarded, largestForwarded,
                   forwardedFor, lastRun>>
    /\ UNCHANGED outsideMon

\* part_000:60: the tasks are joined, cleanup runs and the tick ends.
TickEnds ==
    /\ tickState[1] = "running"
    /\ processedHashes' = cleanupHashCache(processedHashes)
    /\ tickState' = [tickState EXCEPT ![1] = "free"]
    /\ UNCHANGED <<timer, lastFetchTime, startState, clock, nextFire, task,
                   residentForwards, everForwarded, largestForwarded,
                   forwardedFor, lastRun>>
    /\ UNCHANGED outsideMon

CacheNext ==
    \/ TickBegins
    \/ \E h \in CacheHashes : TaskRecordsHash(h)
    \/ TickEnds

(***************************************************************************)
(*                        r e t r y W i t h B a c k o f f                  *)
(***************************************************************************)
MaxRetriesBound == 2   \* opts.maxRetries ranges over 0..MaxRetriesBound
MaxDelayOption  == 3   \* initialDelayMs, maxDelayMs range over 1..MaxDelayOption
MaxMultiplier   == 2   \* backoffMultiplier ranges over 0..MaxMultiplier

\* retry.util.ts:12-17.
defaultOptions ==
    [maxRetries |-> 3, initialDelayMs |-> 1000, maxDelayMs |-> 30000,
     backoffMultiplier |-> 2]

\* retry.util.ts:3-10, the options a caller can pass.
RetryOptions ==
    [maxRetries        : 0..MaxRetriesBound,
     initialDelayMs    : 1..MaxDelayOption,
     maxDelayMs        : 1..MaxDelayOption,
     backoffMultiplier : 0..MaxMultiplier]

\* What the k-th invocation of the operation resolves with / rejects with;
\* the error line 51 makes up when there is none.
Value(k)     == <<"value", k>>
Err(k)       == <<"error", k>>
NoError      == <<"none", 0>>
GenericError == <<"error", 0>>
NoResult     == <<"none", 0>>

\* retry.util.ts:26-28, before the loop is entered.
RetryInitWith(o) ==
    /\ opts = o
    /\ attempt = 0
    /\ delay = o.initialDelayMs
    /\ lastError = NoError
    /\ retryPc = "idle"
    /\ retryResult = NoResult
    /\ invocations = 0
    /\ failures = 0
    /\ slept = <<>>
    /\ warnings = 0

RetryInit == \E o \in RetryOptions : RetryInitWith(o)

\* retry.util.ts:30, the loop condition.
loopContinues(att, o) == att <= o.maxRetries

\* Variant of isLastAttempt: the attempt before the last one already breaks.
isLastAttemptOneEarly(att, o) == att + 1 >= o.maxRetries

\* retry.util.ts:36.
isLastAttempt(att, o) == att = o.maxRetries

\* Variant of recordError: the first error is kept.
recordFirstError(le, e) == IF le = NoError THEN e ELSE le

\* retry.util.ts:34.
recordError(le, e) == e

\* Variant of nextDelay: the cap is dropped.
nextDelayUncapped(d, o) == d * o.backoffMultiplier

\* retry.util.ts:47.
nextDelay(d, o) ==
    IF d * o.backoffMultiplier <= o.maxDelayMs
    THEN d * o.backoffMultiplier ELSE o.maxDelayMs

\* retry.util.ts:51.
raised(le) == IF le # NoError THEN le ELSE GenericError

\* retry.util.ts:30-32: the loop is entered or re-entered with attempt att
\* and the error le; the operation is invoked, or the loop is over and
\* line 51 throws.
EnterLoop(att, le) ==
    IF loopContinues(att, opts)
    THEN /\ retryPc' = "calling"
         /\ invocations' = invocations + 1
         /\ UNCHANGED retryResult
    ELSE /\ retryPc' = "threw"
         /\ retryResult' = raised(le)
         /\ UNCHANGED invocations

\* retryWithBackoff is called (retry.util.ts:22-32).
RetryBegins ==
    /\ retryPc = "idle"
    /\ EnterLoop(attempt, lastError)
    /\ UNCHANGED <<opts, attempt, delay, lastError, failures, slept, warnings>>
    /\ UNCHANGED outsideRetry

\* retry.util.ts:32: operation() resolved and its value is returned.
RetryOperationResolves ==
    /\ retryPc = "calling"
    /\ retryPc' = "returned"
    /\ retryResult' = Value(invocations)
    /\ UNCHANGED <<opts, attempt, delay, lastError, invocations, failures,
                   slept, warnings>>
    /\ UNCHANGED outsideRetry

\* retry.util.ts:33-46 and 51: operation() rejected; on the last attempt the
\* loop is left and the error is thrown, otherwise a warning is logged and
\* sleep(delay) begins.
RetryOperationRejects ==
    /\ retryPc = "calling"
    /\ lastError' = recordError(lastError, Err(invocations))
    /\ failures' = failures + 1
    /\ IF isLastAttempt(attempt, opts)
       THEN /\ retryPc' = "threw"
            /\ retryResult' = raised(lastError')
            /\ UNCHANGED <<slept, warnings>>
       ELSE /\ retryPc' = "sleeping"
            /\ warnings' = warnings + 1
            /\ slept' = Append(slept, delay)
            /\ UNCHANGED retryResult
    /\ UNCHANGED <<opts, attempt, delay, invocations>>
    /\ UNCHANGED outsideRetry

\* retry.util.ts:46-47 and 30: the sleep is over, the delay is multiplied
\* and capped, attempt is incremented and the loop condition is tested.
SleepEnds ==
    /\ retryPc = "sleeping"
    /\ delay' = nextDelay(delay, opts)
    /\ attempt' = attempt + 1
    /\ EnterLoop(attempt + 1, lastError)
    /\ UNCHANGED <<opts, lastError, failures, slept, warnings>>
    /\ UNCHANGED outsideRetry

RetryNext ==
    \/ RetryBegins
    \/ RetryOperationResolves
    \/ RetryOperationRejects
    \/ SleepEnds

(***************************************************************************)
(*                              p o s t O r d e r                          *)
(* Money is in cents and prices in cents per share.                        *)
(***************************************************************************)
MaxIterations == 4   \* fill-loop iterations of one call that are followed

maxRetries == 3                   \* post-order.util.ts:87
DefaultMaxSlippagePercent == 2    \* post-order.util.ts:28
MinRemaining == 1                 \* post-order.util.ts:89, 0.01 USD
Percent == 100                    \* post-order.util.ts:54-55

\* An optional number that was not supplied. The code tests expectedPrice
\* and maxAcceptablePrice for truthiness, so 0 counts as not supplied.
NotSupplied == 0
\* maxSlippagePercent takes its default only when it is undefined.
Undefined == -1

Prices     == {48, 50, 51, 55}    \* level prices the book can show
LevelSizes == {0, 2}              \* level sizes, in shares
OrderSides == {"BUY", "SELL"}

\* One side of a book: no level, or a best level (only levels[0] is read).
Level(p, z) == [price |-> p, size |-> z]
LevelLists == {<<>>} \cup { <<Level(p, z)>> : p \in Prices, z \in LevelSizes }

\* The books getOrderBook can return: the best bid is below the best ask.
OrderBooks ==
    { [asks |-> a, bids |-> b] : a \in LevelLists, b \in LevelLists }
    \ { bk \in [asks : LevelLists, bids : LevelLists] :
          /\ bk.asks # <<>> /\ bk.bids # <<>>
          /\ bk.bids[1].price >= bk.asks[1].price }

\* post-order.util.ts:8-18, the inputs a caller can pass.
PostOrderInputs ==
    [side               : OrderSides,
     sizeUsd            : {1, 60, 150},
     expectedPrice      : {NotSupplied, 50},
     maxSlippagePercent : {Undefined, 10},
     maxAcceptablePrice : {NotSupplied, 51}]

NoOrder == [side |-> "none", price |-> 0, amount |-> <<0, 1>>]

\* History: what the client answered in the last step, when that step was
\* an answer to getMarket (a market or none), to getOrderBook (a book, for
\* the initial check or inside the loop) or to postOrder (a response with
\* its success flag), or a raise of createMarketOrder or postOrder.
\* NoAnswer after any other step.
NoBook == [asks |-> <<>>, bids |-> <<>>]
NoAnswer == [to |-> "none", found |-> FALSE, book |-> NoBook]
MarketAnswer(found) == [to |-> "getMarket", found |-> found, book |-> NoBook]
BookAnswer(call, bk) == [to |-> call, found |-> TRUE, book |-> bk]
PostAnswer(success) == [to |-> "postOrder", found |-> success, book |-> NoBook]
OrderRaise == [to |-> "orderRaise", found |-> FALSE, book |-> NoBook]

\* post-order.util.ts:20-33: postOrder is called and awaits getMarket.
PostOrderInitWith(i) ==
    /\ input = i
    /\ bestPrice = 0
    /\ remaining = 0
    /\ retryCount = 0
    /\ orderArgs = NoOrder
    /\ orderValue = 0
    /\ poPc = "gettingMarket"
    /\ poError = "none"
    /\ ordersCreated = 0
    /\ ordersSubmitted = 0
    /\ acceptedValue = 0
    /\ iterations = 0
    /\ lastAnswer = NoAnswer

PostOrderInit == \E i \in PostOrderInputs : PostOrderInitWith(i)

\* post-order.util.ts:42.
isBuy(i) == i.side = "BUY"

\* Variant of levelsOf: the sides are swapped.
levelsOfOtherSide(i, bk) == IF isBuy(i) THEN bk.bids ELSE bk.asks

\* post-order.util.ts:43 and 91.
levelsOf(i, bk) == IF isBuy(i) THEN bk.asks ELSE bk.bids

\* post-order.util.ts:28.
ceiling(i) ==
    IF i.maxSlippagePercent = Undefined
    THEN DefaultMaxSlippagePercent ELSE i.maxSlippagePercent

\* post-order.util.ts:53-55, without the division: the adverse move of the
\* price, of which the slippage is Percent / expectedPrice times.
adverseMove(i, best) ==
    IF isBuy(i) THEN best - i.expectedPrice ELSE i.expectedPrice - best

\* Variant of slippageCheckFails: the ceiling is reached, not exceeded.
slippageCheckFailsAtCeiling(i, best) ==
    /\ i.expectedPrice # NotSupplied
    /\ adverseMove(i, best) > 0
    /\ adverseMove(i, best) * Percent >= ceiling(i) * i.expectedPrice

\* post-order.util.ts:52-72: the slippage check throws. slippage > ceiling
\* is compared after multiplying both sides by expectedPrice (> 0).
slippageCheckFails(i, best) ==
    /\ i.expectedPrice # NotSupplied
    /\ adverseMove(i, best) > 0
    /\ adverseMove(i, best) * Percent > ceiling(i) * i.expectedPrice

\* Variant of priceCheckFails: the check is made only when no expected
\* price was supplied.
priceCheckFailsWithoutExpected(i, best) ==
    /\ i.expectedPrice = NotSupplied
    /\ i.maxAcceptablePrice # NotSupplied
    /\ \/ isBuy(i) /\ best > i.maxAcceptablePrice
       \/ ~isBuy(i) /\ best < i.maxAcceptablePrice

\* post-order.util.ts:75-82: the absolute price check throws.
priceCheckFails(i, best) ==
    /\ i.maxAcceptablePrice # NotSupplied
    /\ \/ isBuy(i) /\ best > i.maxAcceptablePrice
       \/ ~isBuy(i) /\ best < i.maxAcceptablePrice

\* Variant of loopGoesOn: the attempts are not limited.
loopGoesOnWhileRemaining(rem, rc) == rem > MinRemaining

\* post-order.util.ts:89, the loop condition.
loopGoesOn(rem, rc) == rem > MinRemaining /\ rc < maxRetries

\* post-order.util.ts:89-90: the loop condition is tested with the given
\* remaining and retryCount; the loop fetches the book again or postOrder
\* returns.
TestLoop(rem, rc) ==
    IF loopGoesOn(rem, rc)
    THEN poPc' = "fetchingBook" /\ iterations' = iterations + 1
    ELSE poPc' = "returned" /\ UNCHANGED iterations

\* post-order.util.ts:33-41: getMarket resolved, with a market or without.
GetMarketResolves(found) ==
    /\ poPc = "gettingMarket"
    /\ IF found
       THEN poPc' = "gettingBook" /\ UNCHANGED poError
       ELSE poPc' = "threw" /\ poError' = "MarketNotFound"
    /\ lastAnswer' = MarketAnswer(found)
    /\ UNCHANGED <<input, bestPrice, remaining, retryCount, orderArgs, orderValue,
                   ordersCreated, ordersSubmitted, acceptedValue, iterations>>
    /\ UNCHANGED outsideOrder

\* post-order.util.ts:33, 41 and 90: getMarket or getOrderBook rejected;
\* none of the three calls is inside a try block.
ClientCallRejects ==
    /\ poPc \in {"gettingMarket", "gettingBook", "fetchingBook"}
    /\ poPc' = "threw"
    /\ poError' = "ClientError"
    /\ lastAnswer' = NoAnswer
    /\ UNCHANGED <<input, bestPrice, remaining, retryCount, orderArgs, orderValue,
                   ordersCreated, ordersSubmitted, acceptedValue, iterations>>
    /\ UNCHANGED outsideOrder

\* post-order.util.ts:41-90: the first getOrderBook resolved; the side is
\* selected, the two checks run and the loop is entered.
InitialBookResolves(bk) ==
    /\ poPc = "gettingBook"
    /\ LET levels == levelsOf(input, bk)
       IN IF levels = <<>>
          THEN /\ poPc' = "threw" /\ poError' = "NoLevels"
               /\ UNCHANGED <<bestPrice, remaining, iterations>>
          ELSE /\ bestPrice' = levels[1].price
               /\ IF slippageCheckFails(input, levels[1].price)
                  THEN /\ poPc' = "threw" /\ poError' = "Slippage"
                       /\ UNCHANGED <<remaining, iterations>>
                  ELSE IF priceCheckFails(input, levels[1].price)
                  THEN /\ poPc' = "threw" /\ poError' = "PriceProtection"
                       /\ UNCHANGED <<remaining, iterations>>
                  ELSE /\ remaining' = input.sizeUsd
                       /\ TestLoop(input.sizeUsd, 0)
                       /\ UNCHANGED poError
    /\ lastAnswer' = BookAnswer("initialBook", bk)
    /\ UNCHANGED <<input, retryCount, orderArgs, orderValue,
                   ordersCreated, ordersSubmitted, acceptedValue>>
    /\ UNCHANGED outsideOrder

\* Variant of fillValue: the whole level is taken, whatever remains.
fillValueWholeLevel(rem, level) == level.size * level.price

\* post-order.util.ts:105-107 (and 109-111, the same for SELL).
fillValue(rem, level) == Min({rem, level.size * level.price})

\* Variant of OrderArgs: the order is priced at the best price of the
\* initial check.
OrderArgsAtInitialBest(i, level, value) ==
    [side |-> i.side, price |-> bestPrice, amount |-> <<value, bestPrice>>]

\* post-order.util.ts:114-119; amount is orderValue / levelPrice, kept as
\* the fraction <<orderValue, levelPrice>>.
OrderArgs(i, level, value) ==
    [side |-> i.side, price |-> level.price, amount |-> <<value, level.price>>]

\* post-order.util.ts:90-122: getOrderBook resolved inside the loop; with an
\* empty side the loop is left and postOrder returns, otherwise the order
\* is sized from the best level and createMarketOrder is called.
LoopBookResolves(bk) ==
    /\ poPc = "fetchingBook"
    /\ iterations <= MaxIterations
    /\ LET currentLevels == levelsOf(input, bk)
       IN IF currentLevels = <<>>
          THEN /\ poPc' = "returned"
               /\ UNCHANGED <<orderArgs, orderValue, ordersCreated>>
          ELSE /\ orderValue' = fillValue(remaining, currentLevels[1])
               /\ orderArgs' = OrderArgs(input, currentLevels[1],
                                         fillValue(remaining, currentLevels[1]))
               /\ ordersCreated' = ordersCreated + 1
               /\ poPc' = "creating"
    /\ lastAnswer' = BookAnswer("loopBook", bk)
    /\ UNCHANGED <<input, bestPrice, remaining, retryCount, poError,
                   ordersSubmitted, acceptedValue, iterations>>
    /\ UNCHANGED outsideOrder

\* post-order.util.ts:122-123: createMarketOrder resolved and the signed
\* order is submitted fill-or-kill.
CreateResolves ==
    /\ poPc = "creating"
    /\ poPc' = "posting"
    /\ ordersSubmitted' = ordersSubmitted + 1
    /\ lastAnswer' = NoAnswer
    /\ UNCHANGED <<input, bestPrice, remaining, retryCount, orderArgs, orderValue,
                   poError, ordersCreated, acceptedValue, iterations>>
    /\ UNCHANGED outsideOrder

\* post-order.util.ts:123-130 and 89: client.postOrder resolved; the order
\* was accepted (response.success) or not.
PostResolves(success) ==
    /\ poPc = "posting"
    /\ IF success
       THEN /\ remaining' = remaining - orderValue
            /\ retryCount' = 0
            /\ acceptedValue' = acceptedValue + orderValue
            /\ TestLoop(remaining - orderValue, 0)
       ELSE /\ retryCount' = retryCount + 1
            /\ TestLoop(remaining, retryCount + 1)
            /\ UNCHANGED <<remaining, acceptedValue>>
    /\ lastAnswer' = PostAnswer(success)
    /\ UNCHANGED <<input, bestPrice, orderArgs, orderValue, poError,
                   ordersCreated, ordersSubmitted>>
    /\ UNCHANGED outsideOrder

\* Variant of rethrows: every error is thrown again.
rethrowsAlways(rc) == TRUE

\* post-order.util.ts:133, the test of the catch block on the incremented
\* counter.
rethrows(rc) == rc >= maxRetries

\* post-order.util.ts:131-136 and 89: createMarketOrder or client.postOrder
\* rejected; the catch block counts the failure and throws once the count
\* reaches maxRetries.
OrderCallRejects ==
    /\ poPc \in {"creating", "posting"}
    /\ retryCount' = retryCount + 1
    /\ IF rethrows(retryCount + 1)
       THEN /\ poPc' = "threw" /\ poError' = "OrderError"
            /\ UNCHANGED iterations
       ELSE /\ TestLoop(remaining, retryCount + 1)
            /\ UNCHANGED poError
    /\ lastAnswer' = OrderRaise
    /\ UNCHANGED <<input, bestPrice, remaining, orderArgs, orderValue,
                   ordersCreated, ordersSubmitted, acceptedValue>>
    /\ UNCHANGED outsideOrder

OrderNext ==
    \/ \E found \in BOOLEAN : GetMarketResolves(found)
    \/ ClientCallRejects
    \/ \E bk \in OrderBooks : InitialBookResolves(bk)
    \/ \E bk \in OrderBooks : LoopBookResolves(bk)
    \/ CreateResolves
    \/ \E success \in BOOLEAN : PostResolves(success)
    \/ OrderCallRejects

(***************************************************************************)
(*                c o m p u t e P r o p o r t i o n a l S i z i n g        *)
(* The function's source is not among the files; it is modelled from       *)
(* section 4.2 of the specification and from its tests                     *)
(* (src/src/infrastructure/health-check.server.ts:103-316).                *)
(* A number is a fraction <<n, d>> with d >= 0; d = 0 is what a division   *)
(* by zero gives (not finite).                                             *)
(***************************************************************************)
MaxBalance  == 3   \* balances range over -1..MaxBalance
MaxTradeUsd == 3   \* traderTradeUsd ranges over 0..MaxTradeUsd

minimumUsd == 1    \* the configured minimum, 1 USD

Whole(n)    == <<n, 1>>
Times(x, y) == <<x[1] * y[1], x[2] * y[2]>>
\* x / n for a whole n >= 0.
Over(x, n)  == <<x[1], x[2] * n>>
isFinite(x) == x[2] # 0
\* x < y and x = y for finite x and y.
Less(x, y)  == x[1] * y[2] < y[1] * x[2]
Same(x, y)  == x[1] * y[2] = y[1] * x[2]

\* The multipliers a caller can pass: 0, 1/2, 1 and 2.
Multipliers == { <<0, 1>>, <<1, 2>>, <<1, 1>>, <<2, 1>> }

CopyInputs ==
    [yourUsdBalance   : -1..MaxBalance,
     traderUsdBalance : -1..MaxBalance,
     traderTradeUsd   : 0..MaxTradeUsd,
     multiplier       : Multipliers]

\* Section 4.2: a balance is floored at 0.
floorAtZero(b) == IF b < 0 THEN 0 ELSE b

\* Variant of sizingRatio: the denominator is not tested for 0.
sizingRatioUnguarded(i) ==
    Over(Whole(floorAtZero(i.yourUsdBalance)),
         floorAtZero(i.traderUsdBalance) + i.traderTradeUsd)

\* Section 4.2: ratio = B_f / (B_t + S_t), 0 if the denominator is 0.
sizingRatio(i) ==
    IF floorAtZero(i.traderUsdBalance) + i.traderTradeUsd = 0
    THEN Whole(0)
    ELSE Over(Whole(floorAtZero(i.yourUsdBalance)),
              floorAtZero(i.traderUsdBalance) + i.traderTradeUsd)

\* Variant of computeProportionalSizing: the minimum is not applied.
computeProportionalSizingNoMinimum(i) ==
    [targetUsdSize |-> Times(Times(Whole(i.traderTradeUsd), sizingRatio(i)),
                             i.multiplier),
     ratio |-> sizingRatio(i)]

\* Section 4.2: target = S_t x ratio x M; a target below the minimum or not
\* finite becomes the minimum, the ratio is reported as computed.
computeProportionalSizing(i) ==
    LET ratio  == sizingRatio(i)
        target == Times(Times(Whole(i.traderTradeUsd), ratio), i.multiplier)
    IN IF ~isFinite(target) \/ Less(target, Whole(minimumUsd))
       THEN [targetUsdSize |-> Whole(minimumUsd), ratio |-> ratio]
       ELSE [targetUsdSize |-> target, ratio |-> ratio]

NoSizing == [targetUsdSize |-> Whole(0), ratio |-> Whole(0)]

SizingInitWith(i) ==
    /\ sizingInput = i
    /\ sizingResult = NoSizing
    /\ sizingPc = "called"

SizingInit == \E i \in CopyInputs : SizingInitWith(i)

\* The function returns.
SizingReturns ==
    /\ sizingPc = "called"
    /\ sizingResult' = computeProportionalSizing(sizingInput)
    /\ sizingPc' = "returned"
    /\ UNCHANGED sizingInput
    /\ UNCHANGED outsideSizing

SizingNext == SizingReturns

(***************************************************************************)
(*                    S i g n a l   c o n s t r u c t i o n                *)
(* The fields of the TradeSignal that are computed from the activity's     *)
(* numbers (part_000:100-108). USD amounts and prices are in cents, sizes  *)
(* in shares.                                                              *)
(***************************************************************************)
MaxUsdcSize == 60   \* the largest usdcSize a feed reports, in cents

\* An optional number of the feed: given, or missing from the record.
Given(n) == [given |-> TRUE, value |-> n]
Missing  == [given |-> FALSE, value |-> 0]

\* ActivityResponse (part_000:15-26), the fields the signal's size and
\* outcome are computed from. The feed is not validated, so usdcSize can be
\* any number, or missing.
FeedActivities ==
    [usdcSize     : {Missing} \cup { Given(n) : n \in {-50, 0, 50, MaxUsdcSize} },
     size         : {0, 100, 200},
     price        : {0, 50, 60},
     outcomeIndex : {0, 1}]

\* JavaScript truthiness of an optional number: undefined and 0 are falsy,
\* every other number (a negative one too) is truthy.
truthy(x) == x.given /\ x.value # 0

\* part_000:105, `activity.usdcSize || activity.size * activity.price`.
signalSizeUsd(a) ==
    IF truthy(a.usdcSize) THEN a.usdcSize.value ELSE a.size * a.price

\* part_000:103.
signalOutcome(a) == IF a.outcomeIndex = 0 THEN "YES" ELSE "NO"

NoTradeSignal == [outcome |-> "none", sizeUsd |-> 0, price |-> 0]

SignalInitWith(a) ==
    /\ activity = a
    /\ signal = NoTradeSignal
    /\ signalPc = "passedTests"

SignalInit == \E a \in FeedActivities : SignalInitWith(a)

\* part_000:100-108: the signal is built for an activity that passed the
\* four tests.
SignalBuilt ==
    /\ signalPc = "passedTests"
    /\ signal' = [outcome |-> signalOutcome(activity),
                  sizeUsd |-> signalSizeUsd(activity),
                  price   |-> activity.price]
    /\ signalPc' = "built"
    /\ UNCHANGED activity
    /\ UNCHANGED outsideSignal

SignalNext == SignalBuilt

(***************************************************************************)
(*               T r a d e E x e c u t o r S e r v i c e                   *)
(* copyTrade, with amounts in USD. Sizes are fractions <<n, d>> as in      *)
(* computeProportionalSizing.                                              *)
(***************************************************************************)
MaxFollowerUsd == 1000   \* the largest follower balance the lookup returns

MinTraderBalance      == 100    \* trade-executor.service.ts:118
FallbackTraderBalance == 1000   \* trade-executor.service.ts:120

\* The signals copyTrade is called with (the fields it reads).
CopySignals == [sizeUsd : {0, 100}, price : {50}, side : OrderSides]

\* env.tradeMultiplier, as a fraction.
tradeMultiplier == <<1, 1>>

\* Position (trade-executor.service.ts:19-23) as the positions endpoint
\* returns it, and the lists it can return.
PositionRows == { [currentValue |-> 0,   initialValue |-> 50],
                  [currentValue |-> 600, initialValue |-> 500] }
PositionLists == UNION { [1..n -> PositionRows] : n \in 0..2 }

\* trade-executor.service.ts:117, `pos.currentValue || pos.initialValue || 0`.
positionValue(pos) ==
    IF pos.currentValue # 0 THEN pos.currentValue ELSE pos.initialValue

RECURSIVE totalValue(_)
\* trade-executor.service.ts:117, the reduce over the positions.
totalValue(positions) ==
    IF positions = <<>> THEN 0
    ELSE totalValue(SubSeq(positions, 1, Len(positions) - 1))
           + positionValue(positions[Len(positions)])

\* trade-executor.service.ts:112-122, getTraderBalance when the positions
\* request resolved; when it rejected the result is FallbackTraderBalance.
getTraderBalance(positions) == Max(MinTraderBalance, totalValue(positions))

\* The messages of the errors the calls can raise; NoRaise when the
\* computation of the size returns.
BalanceErrors == {"Balance fetch failed"}
SizingErrors  == {"Sizing failed"}
OrderErrors   == {"Order failed", "Slippage too high"}
NoRaise       == "none"

\* The arguments of a recordTrade call that the properties read.
successRecord(size) == [size |-> size, status |-> "success", errorMessage |-> "none"]
failedRecord(size, msg) == [size |-> size, status |-> "failed", errorMessage |-> msg]

CopyTradeInitWith(sig, tr) ==
    /\ copySignal = sig
    /\ tracker = tr
    /\ yourUsdBalance = 0
    /\ traderBalance = 0
    /\ executionSuccess = FALSE
    /\ executedSize = Whole(0)
    /\ execPc = "gettingBalance"
    /\ execError = "none"
    /\ ledger = <<>>
    /\ postOrderCalls = 0
    /\ postOrderReturned = FALSE
    /\ acceptedUsd = Whole(0)

\* trade-executor.service.ts:32-38: copyTrade is called and awaits
\* getUsdBalanceApprox.
CopyTradeInit ==
    \E sig \in CopySignals, tr \in BOOLEAN : CopyTradeInitWith(sig, tr)

\* Variant of afterCatch: the failure is not recorded.
afterCatchSkipsLedger(tr) == "returned"

\* trade-executor.service.ts:94-108: after logging, the catch block awaits
\* recordTrade when a tracker is configured, otherwise copyTrade returns.
afterCatch(tr) == IF tr THEN "recordingFailure" ELSE "returned"

\* trade-executor.service.ts:86-103, the catch block up to its await (or to
\* the end of copyTrade): the error is logged and the failed trade is handed
\* to recordTrade with executedSize as it is then.
Catch(msg, size) ==
    /\ execError' = msg
    /\ execPc' = afterCatch(tracker)
    /\ ledger' = IF afterCatch(tracker) = "recordingFailure"
                 THEN Append(ledger, failedRecord(size, msg)) ELSE ledger

\* trade-executor.service.ts:38-39: getUsdBalanceApprox resolved;
\* getTraderBalance is awaited.
BalanceResolves(b) ==
    /\ execPc = "gettingBalance"
    /\ yourUsdBalance' = b
    /\ execPc' = "gettingTraderBalance"
    /\ UNCHANGED <<copySignal, tracker, traderBalance, executionSuccess,
                   executedSize, execError, ledger, postOrderCalls,
                   postOrderReturned, acceptedUsd>>
    /\ UNCHANGED outsideExec

\* trade-executor.service.ts:38 and 86-103: getUsdBalanceApprox rejected.
BalanceRejects(msg) ==
    /\ execPc = "gettingBalance"
    /\ Catch(msg, executedSize)
    /\ UNCHANGED <<copySignal, tracker, yourUsdBalance, traderBalance,
                   executionSuccess, executedSize, postOrderCalls,
                   postOrderReturned, acceptedUsd>>
    /\ UNCHANGED outsideExec

\* trade-executor.service.ts:39-59 with the trader balance tb that
\* getTraderBalance returned: the size is computed, kept in executedSize and
\* logged, and postOrder is called; or computing the size raises and the
\* catch block runs with executedSize still 0.
SizeAndPost(tb, sizingRaises) ==
    /\ traderBalance' = tb
    /\ IF sizingRaises # NoRaise
       THEN /\ Catch(sizingRaises, executedSize)
            /\ UNCHANGED <<executedSize, postOrderCalls>>
       ELSE /\ executedSize' =
                  computeProportionalSizing(
                      [yourUsdBalance   |-> yourUsdBalance,
                       traderUsdBalance |-> tb,
                       traderTradeUsd   |-> copySignal.sizeUsd,
                       multiplier       |-> tradeMultiplier]).targetUsdSize
            /\ postOrderCalls' = postOrderCalls + 1
            /\ execPc' = "postingOrder"
            /\ UNCHANGED <<execError, ledger>>

\* trade-executor.service.ts:39-59 and 112-118: the positions request of
\* getTraderBalance resolved.
TraderBalanceResolves(positions, sizingRaises) ==
    /\ execPc = "gettingTraderBalance"
    /\ SizeAndPost(getTraderBalance(positions), sizingRaises)
    /\ UNCHANGED <<copySignal, tracker, yourUsdBalance, executionSuccess,
                   postOrderReturned, acceptedUsd>>
    /\ UNCHANGED outsideExec

\* trade-executor.service.ts:39-59 and 119-121: the positions request
\* rejected; getTraderBalance returns the fallback.
TraderBalanceFallsBack(sizingRaises) ==
    /\ execPc = "gettingTraderBalance"
    /\ SizeAndPost(FallbackTraderBalance, sizingRaises)
    /\ UNCHANGED <<copySignal, tracker, yourUsdBalance, executionSuccess,
                   postOrderReturned, acceptedUsd>>
    /\ UNCHANGED outsideExec

\* The accepted notional is followed in FillParts-ths of the size.
FillParts == 2

\* post-order.util.ts:89-137, what the exchange has accepted when postOrder
\* returns for a given size: all of it (part = FillParts), or less when the
\* fill loop ended on an empty book side or on rejected orders, down to
\* nothing (part = 0).
acceptedOnReturn(size, part) == Over(Times(size, Whole(part)), FillParts)

\* trade-executor.service.ts:59-85: postOrder returned, which tells the
\* caller nothing (it is a Promise<void>), having had `accepted` accepted by
\* the exchange; the success is recorded when a tracker is configured.
PostOrderReturns(accepted) ==
    /\ execPc = "postingOrder"
    /\ executionSuccess' = TRUE
    /\ postOrderReturned' = TRUE
    /\ acceptedUsd' = accepted
    /\ IF tracker
       THEN /\ ledger' = Append(ledger, successRecord(executedSize))
            /\ execPc' = "recordingSuccess"
       ELSE /\ execPc' = "returned"
            /\ UNCHANGED ledger
    /\ UNCHANGED <<copySignal, tracker, yourUsdBalance, traderBalance,
                   executedSize, execError, postOrderCalls>>
    /\ UNCHANGED outsideExec

\* trade-executor.service.ts:59 and 86-103: postOrder raised.
PostOrderRaises(msg) ==
    /\ execPc = "postingOrder"
    /\ Catch(msg, executedSize)
    /\ UNCHANGED <<copySignal, tracker, yourUsdBalance, traderBalance,
                   executionSuccess, executedSize, postOrderCalls,
                   postOrderReturned, acceptedUsd>>
    /\ UNCHANGED outsideExec

\* trade-executor.service.ts:74-85 and 95-109, with
\* position-tracker.service.ts:22-59: recordTrade resolved. It catches every
\* error of its own storage calls and only logs it, so it never rejects;
\* the metrics are counted and copyTrade returns.
RecordTradeResolves ==
    /\ execPc \in {"recordingSuccess", "recordingFailure"}
    /\ execPc' = "returned"
    /\ UNCHANGED <<copySignal, tracker, yourUsdBalance, traderBalance,
                   executionSuccess, executedSize, execError, ledger,
                   postOrderCalls, postOrderReturned, acceptedUsd>>
    /\ UNCHANGED outsideExec

ExecNext ==
    \/ \E b \in {0, MaxFollowerUsd} : BalanceResolves(b)
    \/ \E msg \in BalanceErrors : BalanceRejects(msg)
    \/ \E positions \in PositionLists, r \in SizingErrors \cup {NoRaise} :
          TraderBalanceResolves(positions, r)
    \/ \E r \in SizingErrors \cup {NoRaise} : TraderBalanceFallsBack(r)
    \/ \E part \in 0..FillParts : PostOrderReturns(acceptedOnReturn(executedSize, part))
    \/ \E msg \in OrderErrors : PostOrderRaises(msg)
    \/ RecordTradeResolves

(***************************************************************************)
(*                               h t t p G e t                             *)
(* An error of a request is <<"error", status>>: the status of the         *)
(* response, NoResponse when the request got none, NotAxios when the error *)
(* is not an axios error.                                                  *)
(***************************************************************************)
NoResponse == 0
NotAxios   == -1
TooManyRequests == 429   \* fetch-data.util.ts:14
ServerError     == 500   \* fetch-data.util.ts:13

\* The statuses of the failed requests that are followed.
ErrorStatuses == {NotAxios, NoResponse, 404, TooManyRequests, ServerError, 503}
RequestError(status) == <<"error", status>>
RequestErrors == { RequestError(st) : st \in ErrorStatuses }
ResponseData == <<"value", 0>>

\* fetch-data.util.ts:7-18.
isRetryableError(e) ==
    IF e[2] # NotAxios
    THEN e[2] = NoResponse \/ e[2] >= ServerError \/ e[2] = TooManyRequests
    ELSE FALSE

\* fetch-data.util.ts:29-35, the catch block of `operation`: what it throws
\* for the error e of the request.
operationThrows(enabled, e) ==
    IF ~enabled \/ ~isRetryableError(e) THEN e ELSE e

\* fetch-data.util.ts:39-44 over retry.util.ts:26, the options of the
\* retryWithBackoff call.
httpGetOptions ==
    [defaultOptions EXCEPT !.maxRetries = 3, !.initialDelayMs = 1000,
                           !.backoffMultiplier = 2]

HttpGetInitWith(enabled) ==
    /\ retryEnabled = enabled
    /\ httpAttempt = 0
    /\ httpDelay = httpGetOptions.initialDelayMs
    /\ httpLastError = NoError
    /\ httpPc = "idle"
    /\ httpResult = NoResult
    /\ requests = <<>>

HttpGetInit == \E enabled \in BOOLEAN : HttpGetInitWith(enabled)

\* fetch-data.util.ts:20-47 and 25-27, retry.util.ts:26-32: httpGet is
\* called; with or without the wrapper the first request is made.
HttpGetBegins ==
    /\ httpPc = "idle"
    /\ httpPc' = "requesting"
    /\ UNCHANGED <<retryEnabled, httpAttempt, httpDelay, httpLastError,
                   httpResult, requests>>
    /\ UNCHANGED outsideHttp

\* fetch-data.util.ts:27-28 and retry.util.ts:32: the request resolved and
\* its data is returned.
RequestResolves ==
    /\ httpPc = "requesting"
    /\ httpPc' = "returned"
    /\ httpResult' = ResponseData
    /\ requests' = Append(requests, ResponseData)
    /\ UNCHANGED <<retryEnabled, httpAttempt, httpDelay, httpLastError>>
    /\ UNCHANGED outsideHttp

\* fetch-data.util.ts:29-35 and retry.util.ts:33-46, 51: the request
\* rejected with e and `operation` throws; without the wrapper that ends
\* httpGet, with it the error is recorded and either the attempts are used
\* up and it is thrown, or sleep(delay) begins.
RequestRejects(e) ==
    /\ httpPc = "requesting"
    /\ requests' = Append(requests, e)
    /\ LET thrown == operationThrows(retryEnabled, e)
       IN IF ~retryEnabled
          THEN /\ httpPc' = "threw"
               /\ httpResult' = thrown
               /\ UNCHANGED httpLastError
          ELSE /\ httpLastError' = recordError(httpLastError, thrown)
               /\ IF isLastAttempt(httpAttempt, httpGetOptions)
                  THEN /\ httpPc' = "threw"
                       /\ httpResult' = raised(recordError(httpLastError, thrown))
                  ELSE /\ httpPc' = "sleeping"
                       /\ UNCHANGED httpResult
    /\ UNCHANGED <<retryEnabled, httpAttempt, httpDelay>>
    /\ UNCHANGED outsideHttp

\* retry.util.ts:46-47 and 30-32: the sleep is over, the delay is
\* multiplied and capped and the next request is made.
HttpSleepEnds ==
    /\ httpPc = "sleeping"
    /\ httpDelay' = nextDelay(httpDelay, httpGetOptions)
    /\ httpAttempt' = httpAttempt + 1
    /\ IF loopContinues(httpAttempt + 1, httpGetOptions)
       THEN httpPc' = "requesting" /\ UNCHANGED httpResult
       ELSE httpPc' = "threw" /\ httpResult' = raised(httpLastError)
    /\ UNCHANGED <<retryEnabled, httpLastError, requests>>
    /\ UNCHANGED outsideHttp

HttpNext ==
    \/ HttpGetBegins
    \/ RequestResolves
    \/ \E e \in RequestErrors : RequestRejects(e)
    \/ HttpSleepEnds

(***************************************************************************)
(*          P o s i t i o n T r a c k e r S e r v i c e . r e c o r d T r a d e *)
(* Calls of recordTrade for one (follower, market, outcome) that can be in  *)
(* flight together, as happens when the tasks of two traders forward        *)
(* signals in one tick. Sizes are in cents, prices in cents per share.      *)
(***************************************************************************)
MaxRecorders == 2     \* recordTrade calls that can be in flight together
TradePrice   == 50    \* the executed price of every trade
MaxRecordUsd == 200   \* executed sizes are 100 and MaxRecordUsd
MinOpenSize  == 1     \* a position below 0.01 shares is closed; shares are whole

Recorders == 1..MaxRecorders

\* The arguments of a recordTrade call that the function reads.
RecordInputs ==
    [side : {"BUY", "SELL"}, sizeUsd : {100, MaxRecordUsd},
     status : {"success", "failed"}]

\* The fields of a Position document that updatePosition writes.
PositionFields ==
    {"totalSizeUsd", "averagePrice", "currentSize", "realizedPnL", "isOpen"}

\* No document: what findOne gives when the collection has none for the key.
NoDocument == [f \in PositionFields |-> IF f = "isOpen" THEN "none" ELSE -1]

\* position-tracker.service.ts:80-92, the document made when none is found.
NewPosition ==
    [f \in PositionFields |-> IF f = "isOpen" THEN "open" ELSE 0]

\* A position of 4 shares bought at TradePrice.
OpenPosition ==
    [f \in PositionFields |->
        CASE f = "currentSize"  -> 4
          [] f = "totalSizeUsd" -> 4 * TradePrice
          [] f = "averagePrice" -> TradePrice
          [] f = "realizedPnL"  -> 0
          [] OTHER              -> "open"]

\* position-tracker.service.ts:94-119: the fields after a trade is applied
\* to document p. Sizes are multiples of the price, so the divisions are
\* exact.
applyTrade(p, t) ==
    IF t.side = "BUY"
    THEN LET newTotalSize == p["currentSize"] + t.sizeUsd \div TradePrice
             newTotalCost == p["totalSizeUsd"] + t.sizeUsd
         IN [f \in PositionFields |->
               CASE f = "currentSize"  -> newTotalSize
                 [] f = "totalSizeUsd" -> newTotalCost
                 [] f = "averagePrice" -> newTotalCost \div newTotalSize
                 [] f = "realizedPnL"  -> p["realizedPnL"]
                 [] OTHER              -> "open"]
    ELSE LET sellSize  == t.sizeUsd \div TradePrice
             costBasis == sellSize * p["averagePrice"]
             pnl       == t.sizeUsd - costBasis
             size      == Max(0, p["currentSize"] - sellSize)
             closes    == size < MinOpenSize
         IN [f \in PositionFields |->
               CASE f = "currentSize"  -> IF closes THEN 0 ELSE size
                 [] f = "totalSizeUsd" ->
                       IF closes THEN 0 ELSE Max(0, p["totalSizeUsd"] - costBasis)
                 [] f = "averagePrice" -> p["averagePrice"]
                 [] f = "realizedPnL"  -> p["realizedPnL"] + pnl
                 [] OTHER              -> IF closes THEN "closed" ELSE p["isOpen"]]

\* position-tracker.service.ts:74-92: the document updatePosition works on.
foundOrNew(doc) == IF doc = NoDocument THEN NewPosition ELSE doc

\* position-tracker.service.ts:122, position.save() that succeeds, for the
\* local document `local` that was loaded as `wasLoaded`: a new document is
\* inserted whole; for a document that was found, the fields whose values
\* were changed are written over the stored ones.
savedDocument(stored, wasLoaded, local) ==
    IF wasLoaded = NoDocument
    THEN local
    ELSE [f \in PositionFields |->
             IF local[f] # wasLoaded[f] THEN local[f] ELSE stored[f]]

\* src/src/domain/models/position.model.ts:34-35, the unique index on
\* (follower, marketId, outcome): inserting a second document for the key
\* is refused.
duplicateKey(stored, wasLoaded) == wasLoaded = NoDocument /\ stored # NoDocument

TrackerInitWith(en, doc, args) ==
    /\ trackerEnabled = en
    /\ storedPosition = doc
    /\ storedTrades = 0
    /\ recordArgs = args
    /\ recordPc = [r \in Recorders |-> "idle"]
    /\ position = [r \in Recorders |-> NoDocument]
    /\ loaded = [r \in Recorders |-> NoDocument]
    /\ storageErrors = 0
    /\ positionBefore = doc

TrackerInit ==
    \E en \in BOOLEAN, doc \in {NoDocument, OpenPosition},
       args \in [Recorders -> RecordInputs] :
          TrackerInitWith(en, doc, args)

\* position-tracker.service.ts:22-48: recordTrade is called; it returns at
\* once when the tracker is disabled, otherwise it awaits TradeModel.create.
RecordTradeCalled(r) ==
    /\ recordPc[r] = "idle"
    /\ recordPc' = [recordPc EXCEPT ![r] =
                      IF trackerEnabled THEN "creatingTrade" ELSE "returned"]
    /\ UNCHANGED <<trackerEnabled, storedPosition, storedTrades, recordArgs,
                   position, loaded, storageErrors, positionBefore>>
    /\ UNCHANGED outsideTracker

\* position-tracker.service.ts:36-55 and 64-78: TradeModel.create resolved;
\* for a successful trade updatePosition is called and awaits findOne.
TradeCreateResolves(r) ==
    /\ recordPc[r] = "creatingTrade"
    /\ storedTrades' = storedTrades + 1
    /\ recordPc' = [recordPc EXCEPT ![r] =
                      IF recordArgs[r].status = "success"
                      THEN "finding" ELSE "returned"]
    /\ UNCHANGED <<trackerEnabled, storedPosition, recordArgs, position, loaded,
                   storageErrors, positionBefore>>
    /\ UNCHANGED outsideTracker

\* position-tracker.service.ts:74-122: findOne resolved with the stored
\* document or with none; the trade is applied to the local document and
\* save() is awaited.
FindOneResolves(r) ==
    /\ recordPc[r] = "finding"
    /\ loaded' = [loaded EXCEPT ![r] = storedPosition]
    /\ position' = [position EXCEPT ![r] =
                       applyTrade(foundOrNew(storedPosition), recordArgs[r])]
    /\ recordPc' = [recordPc EXCEPT ![r] = "saving"]
    /\ UNCHANGED <<trackerEnabled, storedPosition, storedTrades, recordArgs,
                   storageErrors, positionBefore>>
    /\ UNCHANGED outsideTracker

\* position-tracker.service.ts:122-129: save() settled. An insert
\* that the unique index refuses rejects; the catch block of updatePosition
\* logs the error and recordTrade returns.
SaveSettles(r) ==
    /\ recordPc[r] = "saving"
    /\ storedPosition' =
          IF duplicateKey(storedPosition, loaded[r])
          THEN storedPosition
          ELSE savedDocument(storedPosition, loaded[r], position[r])
    /\ recordPc' = [recordPc EXCEPT ![r] = "returned"]
    /\ UNCHANGED <<trackerEnabled, storedTrades, recordArgs, position, loaded,
                   storageErrors, positionBefore>>
    /\ UNCHANGED outsideTracker

\* position-tracker.service.ts:56-58 and 127-129: TradeModel.create, findOne
\* or save() rejected for a reason of the store's own; the error is logged
\* and recordTrade returns.
StorageCallRejects(r) ==
    /\ recordPc[r] \in {"creatingTrade", "finding", "saving"}
    /\ storageErrors' = storageErrors + 1
    /\ recordPc' = [recordPc EXCEPT ![r] = "returned"]
    /\ UNCHANGED <<trackerEnabled, storedPosition, storedTrades, recordArgs,
                   position, loaded, positionBefore>>
    /\ UNCHANGED outsideTracker

TrackerNext ==
    \E r \in Recorders :
       \/ RecordTradeCalled(r)
       \/ TradeCreateResolves(r)
       \/ FindOneResolves(r)
       \/ SaveSettles(r)
       \/ StorageCallRejects(r)

(***************************************************************************)
(* Specifications                                                          *)
(***************************************************************************)
\* A component that is not exercised stays as constructed / as called.
BreakerAtRest ==
    /\ CBInit
    /\ options = [failureThreshold |-> 1, successThreshold |-> 1, timeout |-> Timeout]
RetryAtRest == RetryInitWith(defaultOptions)
PostOrderAtRest ==
    PostOrderInitWith([side |-> "BUY", sizeUsd |-> 1,
                       expectedPrice |-> NotSupplied,
                       maxSlippagePercent |-> Undefined,
                       maxAcceptablePrice |-> NotSupplied])

SizingAtRest ==
    SizingInitWith([yourUsdBalance |-> 0, traderUsdBalance |-> 0,
                    traderTradeUsd |-> 0, multiplier |-> <<1, 1>>])

SignalAtRest ==
    SignalInitWith([usdcSize |-> Missing, size |-> 0, price |-> 0, outcomeIndex |-> 0])

CopyTradeAtRest ==
    CopyTradeInitWith([sizeUsd |-> 0, price |-> 50, side |-> "BUY"], FALSE)

HttpGetAtRest == HttpGetInitWith(TRUE)

TrackerAtRest ==
    TrackerInitWith(FALSE, NoDocument,
                    [r \in Recorders |->
                        [side |-> "BUY", sizeUsd |-> 100, status |-> "failed"]])

\* The breaker alone, for every choice of thresholds; the monitor is not started.
InitCB == CBInit /\ MonInit /\ RetryAtRest /\ PostOrderAtRest /\ SizingAtRest /\ SignalAtRest /\ CopyTradeAtRest /\ HttpGetAtRest /\ TrackerAtRest
SpecCB == InitCB /\ [][CBNext]_vars

\* The monitor alone.
InitMon == BreakerAtRest /\ MonInit /\ RetryAtRest /\ PostOrderAtRest /\ SizingAtRest /\ SignalAtRest /\ CopyTradeAtRest /\ HttpGetAtRest /\ TrackerAtRest
SpecMon == InitMon /\ [][MonNext]_vars

\* The dedup cache over whole ticks.
SpecCache == InitMon /\ [][CacheNext]_vars

\* One retryWithBackoff call, for every choice of options and every outcome
\* of each invocation.
InitRetry == BreakerAtRest /\ MonInit /\ RetryInit /\ PostOrderAtRest /\ SizingAtRest /\ SignalAtRest /\ CopyTradeAtRest /\ HttpGetAtRest /\ TrackerAtRest
SpecRetry == InitRetry /\ [][RetryNext]_vars

\* One postOrder call, for every input, every book and every answer of the
\* exchange.
InitOrder == BreakerAtRest /\ MonInit /\ RetryAtRest /\ PostOrderInit /\ SizingAtRest /\ SignalAtRest /\ CopyTradeAtRest /\ HttpGetAtRest /\ TrackerAtRest
SpecOrder == InitOrder /\ [][OrderNext]_vars

\* One computeProportionalSizing call, for every input.
InitSizing == BreakerAtRest /\ MonInit /\ RetryAtRest /\ PostOrderAtRest /\ SizingInit /\ SignalAtRest /\ CopyTradeAtRest /\ HttpGetAtRest /\ TrackerAtRest
SpecSizing == InitSizing /\ [][SizingNext]_vars

\* The construction of one signal, for every activity.
InitSignal == BreakerAtRest /\ MonInit /\ RetryAtRest /\ PostOrderAtRest /\ SizingAtRest /\ SignalInit /\ CopyTradeAtRest /\ HttpGetAtRest /\ TrackerAtRest
SpecSignal == InitSignal /\ [][SignalNext]_vars

\* One copyTrade call, for every signal, with and without a tracker.
InitExec == BreakerAtRest /\ MonInit /\ RetryAtRest /\ PostOrderAtRest /\ SizingAtRest /\ SignalAtRest /\ CopyTradeInit /\ HttpGetAtRest /\ TrackerAtRest
SpecExec == InitExec /\ [][ExecNext]_vars

\* One httpGet call, with and without retry, for every outcome of each
\* request.
InitHttp == BreakerAtRest /\ MonInit /\ RetryAtRest /\ PostOrderAtRest /\ SizingAtRest /\ SignalAtRest /\ CopyTradeAtRest /\ HttpGetInit /\ TrackerAtRest
SpecHttp == InitHttp /\ [][HttpNext]_vars

\* Two recordTrade calls for one position, for every pair of trades, with
\* and without a stored position.
InitTracker == BreakerAtRest /\ MonInit /\ RetryAtRest /\ PostOrderAtRest /\ SizingAtRest /\ SignalAtRest /\ CopyTradeAtRest /\ HttpGetAtRest /\ TrackerInit
SpecTracker == InitTracker /\ [][TrackerNext]_vars

\* The components side by side.
Init == CBInit /\ MonInit /\ RetryInit /\ PostOrderInit /\ SizingInit /\ SignalInit /\ CopyTradeInit /\ HttpGetInit /\ TrackerInit
Next == CBNext \/ MonNext \/ RetryNext \/ OrderNext \/ SizingNext \/ SignalNext
           \/ ExecNext \/ HttpNext \/ TrackerNext
Spec == Init /\ [][Next]_vars

(***************************************************************************)
(* Steps of the monitor, as seen from outside                              *)
(***************************************************************************)
\* Task (s, t) hands a signal to the consumer in this step.
Forwards(s, t) ==
    /\ lastRun'.slot = s /\ lastRun'.trader = t
    /\ lastRun'.signal # NoSignal
\* Task (s, t) fails in this step: its fetch or its consumer call rejects.
TaskFails(s, t) == task[s][t].failed = "none" /\ task'[s][t].failed # "none"
\* A tick begins in slot s in this step / the tick in slot s ends.
TickStarts(s) == tickState[s] = "free" /\ tickState'[s] = "running"
TickFinishes(s) == tickState[s] = "running" /\ tickState'[s] = "free"
\* A fetch of activities is started for task (s, t) in this step.
FetchStarts(s, t) == task[s][t].pc # "fetching" /\ task'[s][t].pc = "fetching"
\* start() is called / start() returns / stop() cancels the timer.
StartCalled  == startState = "notStarted" /\ startState' # "notStarted"
StartReturns == startState # "returned" /\ startState' = "returned"
StopCalled   == timer = "set" /\ timer' = "cleared"

(***************************************************************************)
(* Trade monitor properties                                                *)
(***************************************************************************)

C2_EveryUnseenInWindowTradeForwarded ==
    lastRun.skipped.reason = "watermark" =>
        lastRun.skipped.transactionHash \in everForwarded

\* C3: a forwarded signal's activity time is never below the task's cutoff,
\* and the cutoff is the clock read when the fetch returned less the
\* aggregation window, kept for the rest of the task.
C3_NothingOlderThanWindowForwarded ==
    [][ \A s \in Slots, t \in Traders :
          Forwards(s, t) =>
              /\ lastRun'.signal.timestamp \div MsPerSecond >= task'[s][t].cutoffTime
              /\ task[s][t].pc = "fetching" =>
                     task'[s][t].cutoffTime = clock - AggregationWindowSeconds
              /\ task[s][t].pc = "awaitingConsumer" =>
                     task'[s][t].cutoffTime = task[s][t].cutoffTime
      ]_vars

\* A run of the loop has skipped a trade older than the cutoff and then
\* forwarded a trade inside the window.
C3_Witness ==
    /\ lastRun.skipped.reason = "window"
    /\ lastRun.signal # NoSignal

\* C4: a failing fetch or consumer call settles its own task as fulfilled
\* and changes nothing else (no other task, neither the cache nor the
\* watermarks, no tick, not start()); no task's promise ever rejects, a tick
\* ends only with all its tasks settled, and start() never raises.
C4_FailuresStayInTheirTask ==
    [][ /\ \A s \in Slots, t \in Traders :
             TaskFails(s, t) =>
                 /\ task'[s][t].pc = "settled"
                 /\ task'[s][t].result = "fulfilled"
                 /\ \A s2 \in Slots, t2 \in Traders :
                        <<s2, t2>> # <<s, t>> => task'[s2][t2] = task[s2][t2]
                 /\ UNCHANGED <<processedHashes, lastFetchTime, tickState,
                                startState, timer>>
        /\ \A s \in Slots, t \in Traders : task'[s][t].result # "rejected"
        /\ \A s \in Slots :
             (tickState[s] = "running" /\ tickState'[s] = "free") =>
                 allSettled(task[s])
        /\ startState' # "raised"
      ]_vars

\* In one tick, a trader's task has failed and the other trader's task has
\* forwarded a signal after that.
C4_Witness ==
    /\ lastRun.signal # NoSignal
    /\ \E t \in Traders :
          /\ t # lastRun.trader
          /\ task[lastRun.slot][t].failed # "none"

\* C22: start() sets the timer and begins the first tick, which starts one
\* fetch per trader; start() returns in the step in which that tick ends,
\* with every one of its tasks settled, and never before; while the timer
\* is set a tick begins at the start time plus each multiple of
\* fetchIntervalSeconds (the clock never passes a due time without the tick
\* beginning, and every tick starts one fetch per trader).
C22_FirstTickBeforeReturnThenPeriodic ==
    /\ [][ /\ StartCalled =>
                /\ timer' = "set"
                /\ nextFire' = clock + FetchIntervalSeconds
                /\ TickStarts(1)
                /\ startState' = "awaitingTick"
           /\ StartReturns =>
                /\ startState = "awaitingTick"
                /\ TickFinishes(1)
                /\ \A t \in Traders : task[1][t].pc = "settled"
           /\ \A sl \in Slots :
                TickStarts(sl) =>
                    /\ \A t \in Traders : FetchStarts(sl, t)
                    /\ ~StartCalled =>
                          /\ timer = "set"
                          /\ clock = nextFire
                          /\ nextFire' = nextFire + FetchIntervalSeconds
           /\ clock' # clock => ~(timer = "set" /\ nextFire <= clock)
         ]_vars
    /\ [](timer = "set" => nextFire >= clock)
    /\ [](startState = "awaitingTick" => tickState[1] = "running")

\* start() has returned, a second has passed and the timer's tick is in
\* flight with the timer still set.
C22_Witness ==
    /\ startState = "returned"
    /\ timer = "set"
    /\ clock = FirstClock + FetchIntervalSeconds
    /\ nextFire = clock + FetchIntervalSeconds
    /\ tickState[1] = "running"

\* C23: stop() changes nothing but the timer; once the timer is cleared it
\* stays cleared, no tick begins and no fetch is started; a tick in flight
\* goes on: each of its tasks can take its next step (the fetch's answer,
\* the consumer's answer and the forwarding that follows) and the tick can
\* end with its cleanup once its tasks have settled.
C23_NoNewTickAfterStop ==
    /\ [][ /\ StopCalled =>
                UNCHANGED <<tickState, task, processedHashes, lastFetchTime,
                            startState>>
           /\ timer = "cleared" =>
                /\ timer' = "cleared"
                /\ \A sl \in Slots : ~TickStarts(sl)
                /\ \A sl \in Slots, t \in Traders : ~FetchStarts(sl, t)
         ]_vars
    /\ [](timer = "cleared" =>
            \A sl \in Slots :
               tickState[sl] = "running" =>
                  /\ \A t \in Traders :
                        /\ task[sl][t].pc = "fetching" => ENABLED FetchResolves(sl, t)
                        /\ task[sl][t].pc = "awaitingConsumer" =>
                               ENABLED ConsumerResolves(sl, t)
                  /\ (\A t \in Traders : task[sl][t].pc = "settled") =>
                        ENABLED TickJoins(sl))

\* After stop(), with start() still awaiting the first tick, a task of that
\* tick has forwarded a signal.
C23_Witness ==
    /\ timer = "cleared"
    /\ startState = "awaitingTick"
    /\ lastRun.signal # NoSignal

\* C25 (as claimed): when the feeds of two traders return a trade with the
\* same hash, the consumer is invoked once for each trader: a trader's task
\* skips a trade on the dedup test only when a signal has been forwarded for
\* that trader before (its watermark is not 0), never because the other
\* trader's task recorded the hash; and a resident hash is forwarded at most
\* once per trader.
C25_SharedHashForwardedForEachTrader ==
    /\ lastRun.skipped.reason = "cache" => lastFetchTime[lastRun.trader] # 0
    /\ \A h \in Hashes : residentForwards[h] <= Cardinality(Traders)

\* C32 (as claimed): at any time at most one tick is in progress, so for each
\* trader at most one fetch-and-process task is in flight, and the timer
\* never begins a tick while the previous tick is still running.
C32_AtMostOneTickInProgress ==
    /\ [](Cardinality({sl \in Slots : tickState[sl] = "running"}) <= 1)
    /\ [](\A t \in Traders :
            Cardinality({sl \in Slots :
                            task[sl][t].pc \in {"fetching", "awaitingConsumer"}}) <= 1)
    /\ [][ \A sl \in Slots :
              TickStarts(sl) => \A other \in Slots : tickState[other] = "free"
         ]_vars

\* C33: within one task signals are forwarded in feed order, one at a time:
\* a task that forwards a signal then awaits the consumer, the signal it
\* forwards after the consumer answered is built from one of the activities
\* it had not examined yet and what is left to examine is the rest of the
\* feed after that activity, and while it awaits the consumer nothing of the
\* task moves except by the consumer's answer or the end of its tick. A task
\* waiting for its consumer does not hold back the other trader's task of the
\* same tick: that task can always take its next step.
C33_FeedOrderAndIndependentConsumers ==
    /\ [][ \A sl \in Slots, t \in Traders :
              /\ Forwards(sl, t) =>
                    /\ task'[sl][t].pc = "awaitingConsumer"
                    /\ task[sl][t].pc \in {"fetching", "awaitingConsumer"}
                    /\ task[sl][t].pc = "awaitingConsumer" =>
                          \E i \in 1..Len(task[sl][t].pending) :
                             /\ lastRun'.signal = BuildSignal(task[sl][t].pending[i], t)
                             /\ task'[sl][t].pending =
                                   SubSeq(task[sl][t].pending, i + 1,
                                          Len(task[sl][t].pending))
              /\ ( /\ task[sl][t].pc = "awaitingConsumer"
                   /\ ~(lastRun'.slot = sl /\ lastRun'.trader = t)
                   /\ ~TaskFails(sl, t)
                   /\ ~StopCalled ) =>
                      task'[sl][t] = task[sl][t]
         ]_vars
    /\ [](\A sl \in Slots, t \in Traders, u \in Traders :
            (t # u /\ task[sl][t].pc = "awaitingConsumer") =>
               /\ task[sl][u].pc = "fetching" => ENABLED FetchResolves(sl, u)
               /\ task[sl][u].pc = "awaitingConsumer" =>
                     ENABLED ConsumerResolves(sl, u))

\* One task still awaits its consumer while the other trader's task of the
\* same tick has gone through its feed: it forwarded the early trade, its
\* consumer answered, and it has now forwarded the late one.
C33_Witness ==
    \E sl \in Slots, t \in Traders, u \in Traders :
       /\ t # u
       /\ task[sl][t].pc = "awaitingConsumer"
       /\ lastRun.slot = sl /\ lastRun.trader = u
       /\ lastRun.signal.transactionHash = "0xa"
       /\ largestForwarded[t] = MaxActivityTime
       /\ processedHashes = <<"0xc", "0xb", "0xa">>

\* C34: cache cleanup runs once per tick, in the step that ends the tick, and
\* only when every task of that tick has settled, failed or not: the step
\* removes the oldest batch when the cache is above its maximum and leaves
\* the cache alone otherwise, the cache loses hashes in no other step, and a
\* tick whose tasks have all settled can always end with its cleanup,
\* whatever the tasks of other ticks are doing.
C34_CleanupOncePerTickAfterAllTasks ==
    /\ [][ /\ \A sl \in Slots :
                TickFinishes(sl) =>
                   /\ \A t \in Traders : task[sl][t].pc = "settled"
                   /\ \A other \in Slots \ {sl} : ~TickFinishes(other)
                   /\ processedHashes' =
                         IF Len(processedHashes) > MAX_HASH_CACHE_SIZE
                         THEN SubSeq(processedHashes, CLEANUP_BATCH_SIZE + 1,
                                     Len(processedHashes))
                         ELSE processedHashes
           /\ Len(processedHashes') < Len(processedHashes) =>
                \E sl \in Slots : TickFinishes(sl)
         ]_vars
    /\ [](\A sl \in Slots :
            (tickState[sl] = "running"
               /\ \A t \in Traders : task[sl][t].pc = "settled") =>
                  ENABLED TickJoins(sl))

\* A tick is about to end: one of its tasks failed in the consumer, the other
\* has returned, and the cache is above its maximum, so its cleanup will
\* remove a batch.
C34_Witness ==
    \E sl \in Slots, t \in Traders, u \in Traders :
       /\ tickState[sl] = "running"
       /\ task[sl][t].pc = "settled" /\ task[sl][t].failed = "consumer"
       /\ task[sl][u].pc = "settled" /\ task[sl][u].failed = "none"
       /\ Len(processedHashes) > MAX_HASH_CACHE_SIZE
       /\ ENABLED TickJoins(sl)

\* The time of the trade with hash h; a hash has one timestamp.
timeOf(h) ==
    activityTime(CHOOSE a \in Activities :
                    a.type = "TRADE" /\ a.transactionHash = h)

\* C37: an activity forwarded once for a trader is never forwarded again for
\* that trader, resident in the dedup cache or evicted from it: a step that
\* forwards a signal for a trader forwards one whose hash has not been
\* forwarded for that trader before, and the trader's watermark is at or
\* above the time of every activity forwarded for that trader.
C37_NeverForwardedTwiceForATrader ==
    /\ [][ \A sl \in Slots, t \in Traders :
              Forwards(sl, t) =>
                 lastRun'.signal.transactionHash \notin forwardedFor[t]
         ]_vars
    /\ [](\A t \in Traders :
            \A h \in forwardedFor[t] : lastFetchTime[t] >= timeOf(h))

\* A trade that was forwarded for a trader and has since been evicted from
\* the cache has just been examined again by that trader's task, and was
\* skipped on the watermark test.
C37_Witness ==
    /\ lastRun.skipped.reason = "watermark"
    /\ lastRun.skipped.transactionHash \in forwardedFor[lastRun.trader]
    /\ lastRun.skipped.transactionHash \notin SeqToSet(processedHashes)
    /\ lastRun.signal = NoSignal

\* C38: delivery is at-most-once: in the step that hands a signal to the
\* consumer the hash is already recorded and the watermark already advanced,
\* a consumer call that raises undoes neither (cache and watermarks are left
\* as they are), and no signal is handed to the consumer twice for a trader,
\* so a signal whose consumer call raised is not delivered again.
C38_RaisedSignalNotRedelivered ==
    [][ \A sl \in Slots, t \in Traders :
           /\ Forwards(sl, t) =>
                 /\ lastRun'.signal.transactionHash \in SeqToSet(processedHashes')
                 /\ lastFetchTime'[t] >= lastRun'.signal.timestamp \div MsPerSecond
                 /\ lastRun'.signal.transactionHash \notin forwardedFor[t]
           /\ (TaskFails(sl, t) /\ task'[sl][t].failed = "consumer") =>
                 /\ task[sl][t].pc = "awaitingConsumer"
                 /\ UNCHANGED <<processedHashes, lastFetchTime, forwardedFor>>
      ]_vars

\* The consumer raised for the only signal ever forwarded for a trader (the
\* task that failed is still held by its tick), and that trader's task of
\* the next tick has just examined the same trade and skipped it.
C38_Witness ==
    \E sl \in Slots :
       /\ sl # lastRun.slot
       /\ lastRun.trader \in Traders
       /\ task[sl][lastRun.trader].failed = "consumer"
       /\ forwardedFor[lastRun.trader] = {lastRun.skipped.transactionHash}
       /\ lastRun.signal = NoSignal

\* C19: a trader's watermark never decreases, changes only in a step in
\* which that trader's own task forwards a signal, and always equals the
\* largest activity time forwarded so far for that trader (0 before the
\* first), also when ticks overlap.
C19_WatermarkIsLargestForwardedTime ==
    /\ [](\A t \in Traders : lastFetchTime[t] = largestForwarded[t])
    /\ [][ \A t \in Traders :
             /\ lastFetchTime'[t] >= lastFetchTime[t]
             /\ lastFetchTime'[t] # lastFetchTime[t] =>
                    \E s \in Slots : Forwards(s, t)
         ]_vars

\* Two ticks overlap; one trader's watermark is at the latest activity time
\* and the other trader's is still at the earliest.
C19_Witness ==
    /\ \A s \in Slots : tickState[s] = "running"
    /\ \E t \in Traders :
          /\ lastFetchTime[t] = MaxActivityTime
          /\ \E u \in Traders : lastFetchTime[u] = 1

\* C18 (as claimed): after the cleanup at the end of a tick the cache holds
\* at most MAX_HASH_CACHE_SIZE hashes, however many the tick added.
C18_CacheAtMostMaxAfterCleanup ==
    [][ (tickState[1] = "running" /\ tickState'[1] = "free") =>
            Len(processedHashes') <= MAX_HASH_CACHE_SIZE
      ]_vars

(***************************************************************************)
(* Signal construction properties                                          *)
(***************************************************************************)

\* C21 (as claimed): the signal's sizeUsd is the activity's usdcSize when
\* that is positive, and size x price when usdcSize is zero, missing or
\* not positive.
C21_SizeUsdIsUsdcSizeIfPositive ==
    signalPc = "built" =>
        IF activity.usdcSize.given /\ activity.usdcSize.value > 0
        THEN signal.sizeUsd = activity.usdcSize.value
        ELSE signal.sizeUsd = activity.size * activity.price

(***************************************************************************)
(* copyTrade properties                                                    *)
(***************************************************************************)

\* C24: copyTrade never ends by raising; with a tracker, recordTrade has
\* been invoked exactly once when copyTrade returns and never more than
\* once before: with status success exactly when postOrder returned, with
\* status failed and the message of the caught error when the balance
\* lookup, the sizing or postOrder raised; without a tracker it is never
\* invoked; postOrder is called at most once, and not at all when the
\* follower balance lookup or the sizing failed.
C24_RecordsEveryAttemptOnceNeverRaises ==
    /\ execPc # "raised"
    /\ Len(ledger) <= 1
    /\ ~tracker => ledger = <<>>
    /\ (tracker /\ execPc = "returned") =>
          /\ Len(ledger) = 1
          /\ IF postOrderReturned
             THEN ledger[1].status = "success" /\ execError = "none"
             ELSE /\ ledger[1].status = "failed"
                  /\ ledger[1].errorMessage = execError
                  /\ execError \in BalanceErrors \cup SizingErrors \cup OrderErrors
    /\ execPc = "returned" => (executionSuccess <=> postOrderReturned)
    /\ postOrderCalls <= 1
    /\ execError \in BalanceErrors \cup SizingErrors => postOrderCalls = 0
    /\ execError \in OrderErrors => postOrderCalls = 1 /\ ~postOrderReturned

\* With a tracker, the follower balance lookup failed: copyTrade returned
\* having recorded one failed trade of size 0 with the error's message and
\* without calling postOrder.
C24_Witness ==
    /\ execPc = "returned"
    /\ tracker
    /\ execError \in BalanceErrors
    /\ ledger = << failedRecord(Whole(0), execError) >>
    /\ postOrderCalls = 0

\* C39 (as claimed): with a position tracker, a trade recorded with status
\* success has as its size the notional the exchange accepted during
\* postOrder; a postOrder that returned with notional unfilled is not
\* recorded as a success of the full size.
C39_SuccessRecordsAcceptedNotional ==
    \A k \in 1..Len(ledger) :
       ledger[k].status = "success" => Same(ledger[k].size, acceptedUsd)

(***************************************************************************)
(* Position tracker properties                                             *)
(***************************************************************************)

\* The stored position after trades t1 and t2 are applied one after the
\* other to the stored document p.
appliedInTurn(p, t1, t2) ==
    applyTrade(foundOrNew(applyTrade(foundOrNew(p), t1)), t2)

\* C40 (as claimed): when two successful trades for one position are
\* recorded concurrently and no storage call fails for a reason of the
\* store's own, both take effect: once both calls have returned, the stored
\* position is the result of applying the two updates one after the other,
\* in one order or the other.
C40_ConcurrentTradesBothTakeEffect ==
    ( /\ trackerEnabled
      /\ \A r \in Recorders :
            recordPc[r] = "returned" /\ recordArgs[r].status = "success"
      /\ storageErrors = 0 ) =>
         \/ storedPosition = appliedInTurn(positionBefore, recordArgs[1], recordArgs[2])
         \/ storedPosition = appliedInTurn(positionBefore, recordArgs[2], recordArgs[1])

(***************************************************************************)
(* httpGet properties                                                      *)
(***************************************************************************)

\* C26 (as claimed): with retry enabled, a request that fails is followed
\* by a retry only when its error is retryable (no response, status >= 500
\* or 429), and at most 3 retries are made; any other failure is raised to
\* the caller after that single request.
C26_OnlyRetryableFailuresRetried ==
    retryEnabled =>
        /\ Len(requests) <= httpGetOptions.maxRetries + 1
        /\ \A k \in 1..Len(requests) :
              (requests[k] # ResponseData /\ ~isRetryableError(requests[k])) =>
                  /\ k = 1
                  /\ httpPc = "threw"
                  /\ httpResult = requests[k]

\* C35: whatever the thresholds (at least 1) and however concurrent calls
\* interleave, successCount is above 0 only in state HALF_OPEN and is always
\* below successThreshold, and in state CLOSED failureCount is below
\* failureThreshold.
C35_CountersWithinThresholds ==
    /\ successCount > 0 => state = HALF_OPEN
    /\ successCount < options.successThreshold
    /\ state = CLOSED => failureCount < options.failureThreshold

\* Two calls are in flight in state HALF_OPEN, one success short of closing,
\* after the circuit has been open.
C35_Witness ==
    /\ state = HALF_OPEN
    /\ successCount > 0
    /\ successCount = options.successThreshold - 1
    /\ \A c \in Callers : pc[c] = "running"
    /\ openedAt >= 0

(***************************************************************************)
(* Steps of retryWithBackoff, as seen from outside                         *)
(***************************************************************************)
\* The invocation in flight succeeds / fails in this step.
OperationSucceeds == retryPc = "calling" /\ retryPc' = "returned"
OperationFails    == retryPc = "calling" /\ failures' = failures + 1
\* The wrapper has ended.
RetryEnded == retryPc \in {"returned", "threw"}

(***************************************************************************)
(* retryWithBackoff properties                                             *)
(***************************************************************************)

\* C11: a success on invocation k, after k - 1 failures, is returned with
\* that invocation's value after exactly k invocations (k <= maxRetries + 1);
\* a failure that is not the (maxRetries + 1)-th is followed by a delay and
\* then by exactly one more invocation, never by giving up; once the wrapper
\* has ended the operation is not invoked again.
C11_ReturnsFirstSuccess ==
    [][ /\ OperationSucceeds =>
             /\ retryResult' = Value(invocations)
             /\ invocations' = invocations
             /\ invocations = failures + 1
             /\ invocations <= opts.maxRetries + 1
        /\ (OperationFails /\ failures' < opts.maxRetries + 1) =>
             retryPc' = "sleeping" /\ invocations' = invocations
        /\ (retryPc = "sleeping" /\ retryPc' # "sleeping") =>
             retryPc' = "calling" /\ invocations' = invocations + 1
        /\ RetryEnded => invocations' = invocations
      ]_vars

\* The operation failed twice and succeeded on its third invocation, whose
\* value was returned.
C11_Witness ==
    /\ retryPc = "returned"
    /\ failures = 2
    /\ invocations = 3
    /\ retryResult = Value(3)

\* C12: the wrapper raises only after maxRetries + 1 invocations that all
\* failed, what it raises is the error of the last of them, and once
\* maxRetries + 1 invocations have failed it has raised.
C12_RaisesLastErrorAfterAllAttempts ==
    /\ retryPc = "threw" =>
          /\ invocations = opts.maxRetries + 1
          /\ failures = invocations
          /\ retryResult = Err(invocations)
    /\ failures = opts.maxRetries + 1 => retryPc = "threw"

\* Three invocations failed and the third one's error was raised.
C12_Witness ==
    /\ retryPc = "threw"
    /\ opts.maxRetries = 2
    /\ failures = 3
    /\ retryResult = Err(3)

InitialCheckRuns ==
    /\ lastAnswer'.to = "initialBook"
    /\ IF input.side = "BUY" THEN lastAnswer'.book.asks # <<>>
                             ELSE lastAnswer'.book.bids # <<>>
\* The best price of that book.
InitialBest ==
    IF input.side = "BUY" THEN lastAnswer'.book.asks[1].price
                          ELSE lastAnswer'.book.bids[1].price
\* Directional slippage of price p against the expected price is above the
\* ceiling / is positive (slippage is Move * 100 / expectedPrice percent).
Move(p) ==
    IF input.side = "BUY" THEN p - input.expectedPrice ELSE input.expectedPrice - p
Ceiling ==
    IF input.maxSlippagePercent = Undefined THEN 2 ELSE input.maxSlippagePercent
AboveCeiling(p) == Move(p) * 100 > Ceiling * input.expectedPrice
\* Price p breaches the absolute bound in the adverse direction.
Breaches(p) ==
    IF input.side = "BUY" THEN p > input.maxAcceptablePrice
                          ELSE p < input.maxAcceptablePrice
NoOrderYet == ordersCreated = 0 /\ ordersSubmitted = 0
\* getOrderBook is answered inside the loop in this step; the selected side
\* of that book.
LoopBookAnswered == lastAnswer'.to = "loopBook"
LoopLevels ==
    IF input.side = "BUY" THEN lastAnswer'.book.asks ELSE lastAnswer'.book.bids
\* The submitted order is accepted / rejected by the exchange in this step;
\* creating or submitting the order raises in this step.
Accepted    == lastAnswer'.to = "postOrder" /\ lastAnswer'.found
Rejected    == lastAnswer'.to = "postOrder" /\ ~lastAnswer'.found
OrderRaised == lastAnswer'.to = "orderRaise"
\* The call is inside the fill loop, or has left it by returning.
InLoop == poPc \in {"fetchingBook", "creating", "posting"}

(***************************************************************************)
(* postOrder properties                                                    *)
(***************************************************************************)

\* C14 (as claimed): an order that is being submitted has a price whose
\* directional slippage against a supplied expected price is at most the
\* ceiling and which does not breach a supplied absolute bound.
C14_SubmittedPriceWithinProtections ==
    poPc = "posting" =>
        /\ input.expectedPrice # NotSupplied => ~AboveCeiling(orderArgs.price)
        /\ input.maxAcceptablePrice # NotSupplied => ~Breaches(orderArgs.price)

\* C27: an accepted submission takes exactly the submitted value off
\* remaining, adds it to the accepted total and sets the attempt counter to
\* 0; the submitted value is min(remaining, level size x level price) of
\* the book fetched in that iteration; remaining never grows once the loop
\* is entered; in every state remaining >= 0, the accepted total is at most
\* sizeUsd, and inside the loop the two add up to sizeUsd.
C27_AcceptedValueNeverExceedsRequest ==
    /\ [][ /\ Accepted =>
                /\ remaining' = remaining - orderArgs.amount[1]
                /\ acceptedValue' = acceptedValue + orderArgs.amount[1]
                /\ retryCount' = 0
           /\ (LoopBookAnswered /\ LoopLevels # <<>>) =>
                /\ orderArgs'.amount[1] <= remaining
                /\ orderArgs'.amount[1] <= LoopLevels[1].size * LoopLevels[1].price
                /\ orderArgs'.amount[1] \in
                       {remaining, LoopLevels[1].size * LoopLevels[1].price}
           /\ InLoop => remaining' <= remaining
         ]_vars
    /\ [](/\ remaining >= 0
          /\ acceptedValue <= input.sizeUsd
          /\ InLoop => acceptedValue + remaining = input.sizeUsd)

\* A request of 1.50 was filled by two accepted orders, the first for the
\* whole best level and the second for what remained.
C27_Witness ==
    /\ poPc = "returned"
    /\ input.sizeUsd = 150
    /\ ordersSubmitted = 2
    /\ acceptedValue = 150
    /\ remaining = 0

\* C28: a rejected submission adds 1 to the attempt counter and changes
\* neither remaining nor the accepted total, and raises nothing; when that
\* brings the counter to 3 the call returns, otherwise the loop goes on;
\* when the book fetched in the loop has no level on the selected side the
\* call returns without creating an order; a call that returns has raised
\* no error, whatever remains unfilled, and after it has ended no order is
\* created or submitted.
C28_RejectionsAndEmptyBookReturnNormally ==
    /\ [][ /\ Rejected =>
                /\ retryCount' = retryCount + 1
                /\ UNCHANGED <<remaining, acceptedValue, poError>>
                /\ IF retryCount + 1 >= 3
                   THEN poPc' = "returned"
                   ELSE poPc' = "fetchingBook"
           /\ (LoopBookAnswered /\ LoopLevels = <<>>) =>
                /\ poPc' = "returned"
                /\ UNCHANGED <<remaining, acceptedValue, poError, retryCount,
                               ordersCreated, ordersSubmitted>>
           /\ poPc \in {"returned", "threw"} =>
                UNCHANGED <<ordersCreated, ordersSubmitted>>
         ]_vars
    /\ [](poPc = "returned" => poError = "none")

\* A request of 1.50 had one order accepted and then three rejected: the
\* call returned with 0.50 (or more) unfilled and no error.
C28_Witness ==
    /\ poPc = "returned"
    /\ poError = "none"
    /\ lastAnswer = PostAnswer(FALSE)
    /\ retryCount = 3
    /\ acceptedValue > 0
    /\ remaining > MinRemaining

\* C29: when createMarketOrder or postOrder raises, the attempt counter is
\* incremented and remaining is unchanged; the call fails with that error
\* exactly when the counter has then reached 3, rejections and raises since
\* the last acceptance counted together; otherwise no error is raised and
\* the loop fetches a fresh book.
C29_RaiseRethrownOnThirdFailure ==
    [][ OrderRaised =>
          /\ retryCount' = retryCount + 1
          /\ UNCHANGED <<remaining, acceptedValue>>
          /\ IF retryCount + 1 >= 3
             THEN poPc' = "threw" /\ poError' = "OrderError"
             ELSE poPc' = "fetchingBook" /\ poError' = "none"
      ]_vars

\* A rejection and then two raises of createMarketOrder: the third failure
\* in a row, a raise, ended the call with the error.
C29_Witness ==
    /\ poPc = "threw"
    /\ poError = "OrderError"
    /\ lastAnswer = OrderRaise
    /\ retryCount = 3
    /\ ordersCreated = 3
    /\ ordersSubmitted = 1

\* C30: every iteration of the loop begins with a fetch of the book; an
\* order is created only in the step in which that fetch is answered, at
\* the price of the best level of the answered book and with value
\* (quantity x price) min(remaining, level size x level price); it is
\* submitted as created, and the next order is created only after the next
\* fetch.
C30_OrderPricedFromBookOfItsIteration ==
    [][ /\ (LoopBookAnswered /\ LoopLevels # <<>>) =>
             /\ poPc = "fetchingBook" /\ poPc' = "creating"
             /\ ordersCreated' = ordersCreated + 1
             /\ orderArgs'.side = input.side
             /\ orderArgs'.price = LoopLevels[1].price
             /\ orderArgs'.amount[2] = LoopLevels[1].price
             /\ orderArgs'.amount[1] =
                    IF remaining <= LoopLevels[1].size * LoopLevels[1].price
                    THEN remaining
                    ELSE LoopLevels[1].size * LoopLevels[1].price
        /\ orderArgs' # orderArgs => LoopBookAnswered
        /\ ordersCreated' # ordersCreated => LoopBookAnswered
        /\ ordersSubmitted' # ordersSubmitted =>
             /\ poPc = "creating" /\ poPc' = "posting"
             /\ ordersSubmitted' = ordersSubmitted + 1
        /\ (poPc \in {"creating", "posting"} /\ poPc' \notin {"creating", "posting"}) =>
             poPc' \in {"fetchingBook", "returned", "threw"}
      ]_vars

\* The second order of a call is being submitted at a price that is not the
\* best price of the initial check.
C30_Witness ==
    /\ poPc = "posting"
    /\ ordersCreated = 2
    /\ acceptedValue > 0
    /\ orderArgs.price # bestPrice

\* C31 (as claimed): the fill loop terminates whatever the exchange and the
\* book do: every iteration after which the loop goes on has made progress,
\* it has lowered remaining, or left remaining as it was and raised the
\* attempt counter (which ends the loop at 3); so no iteration ends in the
\* state in which an earlier one began.
C31_EveryIterationMakesProgress ==
    [][ (poPc \in {"creating", "posting"} /\ poPc' = "fetchingBook") =>
            \/ remaining' < remaining
            \/ remaining' = remaining /\ retryCount' > retryCount
      ]_vars

C16_AbsoluteBoundFails ==
    [][ (InitialCheckRuns /\ input.maxAcceptablePrice # NotSupplied
                          /\ Breaches(InitialBest)) =>
          /\ poPc' = "threw"
          /\ poError' \in {"Slippage", "PriceProtection"}
          /\ (input.expectedPrice = NotSupplied \/ ~AboveCeiling(InitialBest))
                => poError' = "PriceProtection"
          /\ NoOrderYet'
      ]_vars

\* A BUY with an expected price passed the slippage check (ceiling 10, best
\* ask 55 against 50) and was failed by the absolute bound of 51.
C16_Witness ==
    /\ poPc = "threw" /\ poError = "PriceProtection"
    /\ input.side = "BUY" /\ input.expectedPrice = 50
    /\ bestPrice = 55

\* C17: when getMarket answers with no market, or the initial book has no
\* level on the selected side (asks for BUY, bids for SELL), the call fails
\* with the corresponding error and no order has been created or submitted.
C17_UnknownMarketOrEmptySideFails ==
    /\ (lastAnswer.to = "getMarket" /\ ~lastAnswer.found) =>
          poPc = "threw" /\ poError = "MarketNotFound" /\ NoOrderYet
    /\ ( /\ lastAnswer.to = "initialBook"
         /\ IF input.side = "BUY" THEN lastAnswer.book.asks = <<>>
                                  ELSE lastAnswer.book.bids = <<>> ) =>
          poPc = "threw" /\ poError = "NoLevels" /\ NoOrderYet
    /\ poError \in {"MarketNotFound", "NoLevels"} => NoOrderYet

\* A SELL met an initial book with asks and no bids and failed.
C17_Witness ==
    /\ lastAnswer.to = "initialBook"
    /\ input.side = "SELL"
    /\ lastAnswer.book.asks # <<>> /\ lastAnswer.book.bids = <<>>
    /\ poPc = "threw" /\ poError = "NoLevels"

(***************************************************************************)
(* computeProportionalSizing properties                                    *)
(***************************************************************************)
\* The balances floored at 0, the denominator and the target, computed
\* from the input alone (the target as numerator over denominator).
FollowerBalance == IF sizingInput.yourUsdBalance > 0
                   THEN sizingInput.yourUsdBalance ELSE 0
TraderBalance   == IF sizingInput.traderUsdBalance > 0
                   THEN sizingInput.traderUsdBalance ELSE 0
Denominator     == TraderBalance + sizingInput.traderTradeUsd
TargetNum == sizingInput.traderTradeUsd * FollowerBalance * sizingInput.multiplier[1]
TargetDen == Denominator * sizingInput.multiplier[2]
TargetBelowMinimum == Denominator = 0 \/ TargetNum < TargetDen

\* C20: for every input the function returns; targetUsdSize is finite and at
\* least 1; when the computed target is below 1 the result is exactly 1 and
\* ratio is the ratio computed before the floor: follower balance over
\* trader balance plus trade size with negative balances taken as 0, and 0
\* when that denominator is 0 or the follower balance is not positive.
C20_TargetAtLeastMinimum ==
    sizingPc = "returned" =>
        /\ isFinite(sizingResult.targetUsdSize)
        /\ isFinite(sizingResult.ratio)
        /\ sizingResult.targetUsdSize[1] >= sizingResult.targetUsdSize[2]
        /\ TargetBelowMinimum =>
              /\ sizingResult.targetUsdSize[1] = sizingResult.targetUsdSize[2]
              /\ IF Denominator = 0
                 THEN sizingResult.ratio[1] = 0
                 ELSE sizingResult.ratio[1] * Denominator
                          = FollowerBalance * sizingResult.ratio[2]
        /\ sizingInput.yourUsdBalance <= 0 =>
              /\ sizingResult.ratio[1] = 0
              /\ sizingResult.targetUsdSize[1] = sizingResult.targetUsdSize[2]

\* Balances (0, 0) with a trade of 3 and multiplier 1 gave target 1 and
\* ratio 0.
C20_Witness ==
    /\ sizingPc = "returned"
    /\ sizingInput.yourUsdBalance = 0 /\ sizingInput.traderUsdBalance = 0
    /\ sizingInput.traderTradeUsd = 3
    /\ sizingInput.multiplier = <<1, 1>>
    /\ sizingResult.targetUsdSize = <<1, 1>>
    /\ sizingResult.ratio[1] = 0 /\ sizingResult.ratio[2] # 0

(***************************************************************************)
(* Steps of the breaker, as seen from outside                              *)
(***************************************************************************)
\* Caller c's execute() is called in this step.
Called(c) == pc[c] = "idle" /\ pc'[c] # "idle"
\* Caller c's operation completes in this step, successfully / with an error.
Succeeded(c) == pc[c] = "running" /\ pc'[c] = "returned"
Failed(c)    == /\ pc[c] = "running" /\ pc'[c] # "running"
                /\ consecutiveFailures' = consecutiveFailures + 1
\* No caller moves and the clock stands still: the step is a reset().
IsReset == pc' = pc /\ cbNow' = cbNow

(***************************************************************************)
(* Circuit breaker properties                                              *)
(***************************************************************************)

\* C5: starting from CLOSED, a completing failure opens the circuit exactly
\* when it is the failureThreshold-th failure with no success in between
\* (fewer never open it), nothing else takes CLOSED to OPEN, and every
\* success resets failureCount to 0.
C5_OpensAtThresholdConsecutiveFailures ==
    [][ /\ \A c \in Callers :
             (Failed(c) /\ state = CLOSED) =>
                 /\ state' \in {CLOSED, OPEN}
                 /\ state' = OPEN <=> consecutiveFailures' = options.failureThreshold
        /\ (state = CLOSED /\ state' = OPEN) => \E c \in Callers : Failed(c)
        /\ \A c \in Callers : Succeeded(c) => failureCount' = 0
      ]_vars

\* The circuit has just opened from CLOSED on the third of three consecutive
\* failures.
C5_Witness ==
    /\ state = OPEN
    /\ lastEdge = <<CLOSED, OPEN>>
    /\ options.failureThreshold = 3
    /\ consecutiveFailures = 3
    /\ failureCount = 3

\* C6: a call made while OPEN and before nextAttempt ends with the
\* circuit-open error, does not invoke the operation, and leaves state,
\* failureCount, successCount and nextAttempt as they were.
C6_RejectedCallChangesNothing ==
    [][ \A c \in Callers :
          (Called(c) /\ state = OPEN /\ cbNow < nextAttempt) =>
              /\ pc'[c] = "rejected"
              /\ UNCHANGED <<state, failureCount, successCount, nextAttempt>>
      ]_vars

\* A call has been rejected and the circuit is still OPEN before its deadline.
C6_Witness ==
    /\ state = OPEN
    /\ cbNow < nextAttempt
    /\ \E c \in Callers : pc[c] = "rejected"

\* C7 (as claimed): a call made while OPEN and at least `timeout` after the
\* circuit opened is admitted, with state HALF_OPEN and successCount 0
\* before the operation starts.
C7_AdmittedTimeoutAfterOpening ==
    [][ \A c \in Callers :
          (Called(c) /\ state = OPEN /\ cbNow >= openedAt + options.timeout) =>
              /\ pc'[c] = "running"
              /\ state' = HALF_OPEN
              /\ successCount' = 0
      ]_vars

\* C36 (as claimed): while the state stays OPEN nextAttempt keeps the value
\* it got when the circuit opened, and a call that was admitted before the
\* circuit opened and ends, by failure or by success, while the state is OPEN
\* changes neither the deadline nor the state.
C36_DeadlineFixedWhileOpen ==
    [][ /\ (state = OPEN /\ state' = OPEN) => nextAttempt' = nextAttempt
        /\ \A c \in Callers :
              (state = OPEN /\ (Succeeded(c) \/ Failed(c))) =>
                  /\ state' = OPEN
                  /\ nextAttempt' = nextAttempt
      ]_vars

\* C8: a success in HALF_OPEN that brings successCount to successThreshold
\* closes the circuit with both counters 0; any other success in HALF_OPEN
\* increments successCount and leaves the state HALF_OPEN.
C8_HalfOpenSuccessCountsTowardsClose ==
    [][ \A c \in Callers :
          (Succeeded(c) /\ state = HALF_OPEN) =>
              IF successCount + 1 >= options.successThreshold
              THEN state' = CLOSED /\ failureCount' = 0 /\ successCount' = 0
              ELSE state' = HALF_OPEN /\ successCount' = successCount + 1
      ]_vars

\* The circuit is still HALF_OPEN after a success that did not reach the
\* threshold.
C8_Witness ==
    /\ state = HALF_OPEN
    /\ successCount >= 1
    /\ successCount < options.successThreshold
    /\ \E c \in Callers : pc[c] = "returned"

\* C9: a failure in HALF_OPEN opens the circuit, sets nextAttempt to
\* now + timeout and successCount to 0, whatever the counters were, and the
\* operation's error reaches the caller.
C9_HalfOpenFailureReopens ==
    [][ \A c \in Callers :
          (Failed(c) /\ state = HALF_OPEN) =>
              /\ state' = OPEN
              /\ nextAttempt' = cbNow + options.timeout
              /\ successCount' = 0
              /\ pc'[c] = "threw"
      ]_vars

\* The circuit has reopened from HALF_OPEN on a failure that left
\* failureCount below the threshold.
C9_Witness ==
    /\ state = OPEN
    /\ lastEdge = <<HALF_OPEN, OPEN>>
    /\ failureCount >= 1
    /\ failureCount < options.failureThreshold
    /\ nextAttempt = cbNow + options.timeout
    /\ \E c \in Callers : pc[c] = "threw"

\* C10: a call that is made changes the state only from OPEN to HALF_OPEN, a
\* call that succeeds only from HALF_OPEN to CLOSED, a call that fails only
\* from CLOSED or HALF_OPEN to OPEN, and any other change is reset() going to
\* CLOSED.
C10_OnlyDefinedEdges ==
    [][ state' # state =>
          \/ \E c \in Callers : Called(c) /\ <<state, state'>> = <<OPEN, HALF_OPEN>>
          \/ \E c \in Callers : Succeeded(c) /\ <<state, state'>> = <<HALF_OPEN, CLOSED>>
          \/ \E c \in Callers : Failed(c) /\ <<state, state'>> \in
                                   {<<CLOSED, OPEN>>, <<HALF_OPEN, OPEN>>}
          \/ IsReset /\ state' = CLOSED
      ]_vars

\* A call admitted before the circuit opened has completed successfully while
\* the circuit was OPEN (failureCount is back to 0) and the circuit is still
\* OPEN.
C10_Witness ==
    /\ state = OPEN
    /\ lastEdge = <<CLOSED, OPEN>>
    /\ failureCount = 0
    /\ \E c \in Callers : pc[c] = "returned"

====
